---- MODULE Spec2Model ----
(***************************************************************************)
(* Model of the multi-cluster pod phase watcher                            *)
(* (watcher/multi_cluster_pod_phase_watcher.py) and of its notification    *)
(* sink (watcher/clusterapi_client.py).                                    *)
(*                                                                         *)
(* Python values are modelled as follows: a str is a TLA+ string, the      *)
(* value None is the string PyNone, a dict is a function whose DOMAIN is   *)
(* the set of its keys, a list is a sequence.  A call that raises returns  *)
(* the marker Raise in place of a value.                                   *)
(***************************************************************************)
EXTENDS Naturals, Sequences, FiniteSets, TLC

VARIABLES
    clusters,           \* config['kubernetes']['clusters'], a list of descriptors
    main_pc,            \* position of the main thread in start_watching_all_clusters
    next_idx,           \* index of the descriptor the for loop handles next
    session,            \* session[i]: state of the thread running _watch_cluster(clusters[i])
    loop,               \* loop[i].pod / loop[i].pvc: state of the watch_pods / watch_pvcs threads
    pod_phase_history,  \* self.pod_phase_history
    now,                \* the clock read by datetime.now()
    handled,            \* the event handled last: its inputs, the history before it (pre), what was
                        \* seen of its PVC before it (seen), the state of the other loop of its
                        \* session (peer), the sink calls it made
    iso,                \* iso[c]: the history cluster c's own pod events produce on a store of its own
    pvc_seen,           \* per PVC key, the result of the last sink call made for it
    run_log,            \* the events one pod loop handled, in order, with what each did
    error_log,          \* the sessions whose _watch_cluster logged "Error watching cluster"
    thread,             \* thread[i]: where the pod loop of session i stands inside
                        \* handle_pod_phase_event, with the values it holds in local variables
    accessors,          \* accessors[key]: the sessions whose loops read or wrote the record of key
    default_configuration, \* kubernetes.client.Configuration._default, one per process
    v1_client,          \* v1_client[i]: the configuration of the CoreV1Api session i was given
    single,             \* the single-cluster PodPhaseWatcher fed the events of run_log
    legacy,             \* the PodWatcher: its environment and option, the event it handled last
    os_environ,         \* os.environ.get('ENVIRONMENT')
    sys_argv,           \* sys.argv[1:]
    environment         \* the environment main chose

\* The state of the multi-cluster watcher and what is observed of its runs.
watcher_vars == <<clusters, main_pc, next_idx, session, loop, pod_phase_history, now,
                  handled, iso, pvc_seen, run_log, error_log, thread, accessors>>

\* The Kubernetes client configuration, the two single-cluster watchers and
\* the start of main.
other_vars == <<default_configuration, v1_client, single, legacy,
                os_environ, sys_argv, environment>>

vars == <<watcher_vars, other_vars>>

(***************************************************************************)
(* Bounds of the model.                                                    *)
(***************************************************************************)
MaxClusters == 2     \* descriptors in the configured cluster list
MaxStartClock == 1   \* events handled in a run of Spec
MaxClock == 2        \* events handled in a run of SpecEvents
MaxRun == 5          \* events handled in a run of SpecRun
MaxLoopClock == 2    \* events handled in a run of SpecLoops
MaxThreadEvents == 3 \* events each pod loop receives in a run of SpecThreads
MaxSnapshotClock == 2 \* events handled in a run of SpecSnapshots
MaxKeyEvents == 2     \* events handled in a run of SpecKeys
MaxSingleRun == 3     \* events fed to both watchers in a run of SpecSingle

ClusterNames == {"c1", "c2"}
PodUids == {"u1", "u2"}
PvcUids == {"v1"}
Phases == {"Pending", "Running", "Failed"}
EventTypes == {"ADDED", "MODIFIED", "DELETED"}
HttpOutcomes == {"200", "500", "ConnectionError", "Timeout", "OtherError"}

PyNone == "<None>"
NoStatus == "<no status>"
Raise == "<raise>"
PyTrue == "True"
PyFalse == "False"

(***************************************************************************)
(* Inputs.  A pod carries metadata.uid and status; status is NoStatus when *)
(* pod.status is None and otherwise stands for status.phase.               *)
(***************************************************************************)
Pods == [uid : PodUids, status : Phases \cup {NoStatus}]
Pvcs == [uid : PvcUids]

\* What a call of the sink meets: whether the certificate files load, and how
\* the HTTP request ends.
\* With no certificate loaded the request is never sent.
SinkEnvs == [cert_ok : {TRUE}, http : HttpOutcomes]
                \cup {[cert_ok |-> FALSE, http |-> "not sent"]}

\* A cluster descriptor of the configuration: a dict with a name and possibly a
\* host, or an entry that is no dict at all.
DictDescriptors == [is_dict : {TRUE}, name : ClusterNames, has_host : BOOLEAN]
NonDictDescriptor == [is_dict |-> FALSE, name |-> PyNone, has_host |-> FALSE]
Descriptors == DictDescriptors \cup {NonDictDescriptor}

RECURSIVE SeqsUpTo(_, _)
SeqsUpTo(S, n) ==
    IF n = 0 THEN {<<>>}
    ELSE LET shorter == SeqsUpTo(S, n - 1)
         IN  shorter \cup {Append(s, x) : s \in {t \in shorter : Len(t) = n - 1}, x \in S}

(***************************************************************************)
(* The notification sink: ClusterApiClient.                                *)
(***************************************************************************)
\* load_cert_chain runs before the try block; the request and the status test
\* run inside it, and every except clause returns False.
pod_event(pod_data, env) ==
    IF ~env.cert_ok THEN Raise
    ELSE IF env.http = "200" THEN PyTrue
    ELSE PyFalse

pvc_event(pvc_data, env) ==
    IF ~env.cert_ok THEN Raise
    ELSE IF DOMAIN pvc_data = {} THEN PyFalse
    ELSE IF env.http = "200" THEN PyTrue
    ELSE PyFalse

\* The whole body is inside try / bare except.
health_check(env) ==
    IF env.http = "200" THEN PyTrue ELSE PyFalse

(***************************************************************************)
(* The phase history store.                                                *)
(***************************************************************************)
EmptyHistory == [k \in {} |-> [phase |-> PyNone, timestamp |-> 0]]

\* Variant: the key of the single-cluster watcher, the UID alone.
PodKey_uid_only(cluster_name, pod_uid) == pod_uid

\* str(value), as an f-string applies it: None becomes the text "None".
Str(value) == IF value = PyNone THEN "None" ELSE value

\* f"{cluster_name}:{pod_uid}"
PodKey(cluster_name, pod_uid) == Str(cluster_name) \o ":" \o Str(pod_uid)

\* Variant: .get("phase") with the default left out.
GetPhase_no_default(history, key, default) ==
    IF key \in DOMAIN history THEN history[key].phase ELSE PyNone

\* history.get(key, {}).get("phase", default)
GetPhase(history, key, default) ==
    IF key \in DOMAIN history THEN history[key].phase ELSE default

\* Variant: only an unseen key is reported, the phases are never compared.
_should_notify_first_only(history, pod_uid, current_phase) ==
    pod_uid \notin DOMAIN history

\* Variant: every event is reported, equal phases included.
_should_notify_always(history, pod_uid, current_phase) == TRUE

_should_notify_phase_change(history, pod_uid, current_phase) ==
    IF pod_uid \notin DOMAIN history THEN TRUE
    ELSE IF history[pod_uid].phase # current_phase THEN TRUE
    ELSE FALSE

\* Variant: setdefault, an existing record is kept as it is.
_update_phase_history_setdefault(history, pod_uid, phase, t) ==
    [k \in DOMAIN history \cup {pod_uid} |->
        IF k \in DOMAIN history THEN history[k]
        ELSE [phase |-> phase, timestamp |-> t]]

\* Variant: the store is replaced by a new dict that holds this record only.
_update_phase_history_replace(history, pod_uid, phase, t) ==
    [k \in {pod_uid} |-> [phase |-> phase, timestamp |-> t]]

_update_phase_history(history, pod_uid, phase, t) ==
    [k \in DOMAIN history \cup {pod_uid} |->
        IF k = pod_uid THEN [phase |-> phase, timestamp |-> t] ELSE history[k]]

(***************************************************************************)
(* The event translator.                                                   *)
(***************************************************************************)
\* Variant: pod.status.phase with no test of pod.status.
CurrentPhase_unguarded(pod) == IF pod.status # NoStatus THEN pod.status ELSE Raise

CurrentPhase(pod) == IF pod.status # NoStatus THEN pod.status ELSE "Unknown"

\* Variant: previous_phase looked up under the UID alone, as the translator of
\* the single-cluster watcher does.
_extract_pod_phase_data_by_uid(history, pod, cluster_name, t) ==
    [uid |-> pod.uid,
     current_phase |-> CurrentPhase(pod),
     previous_phase |-> GetPhase(history, pod.uid, PyNone),
     cluster_name |-> cluster_name,
     event_timestamp |-> t]

_extract_pod_phase_data(history, pod, cluster_name, t) ==
    [uid |-> pod.uid,
     current_phase |-> CurrentPhase(pod),
     previous_phase |-> GetPhase(history, PodKey(cluster_name, pod.uid), PyNone),
     cluster_name |-> cluster_name,
     event_timestamp |-> t]

(***************************************************************************)
(* The handlers.  Each returns the history it leaves, the sink calls it    *)
(* made (payload and result, in order) and whether it raised.              *)
(***************************************************************************)
Outcome(history, calls, raised) ==
    [history |-> history, calls |-> calls, raised |-> raised]

SinkCall(api, payload, result) ==
    [api |-> api, payload |-> payload, result |-> result]

\* Variant: the record is written before the sink has answered (record first,
\* then notify).
handle_pod_phase_event_record_first(history, event_type, pod, cluster_name, t, env) ==
    LET current_phase == CurrentPhase(pod)
        pod_key == PodKey(cluster_name, pod.uid)
        phase_data == _extract_pod_phase_data(history, pod, cluster_name, t)
        success == pod_event(phase_data, env)
        written == _update_phase_history(history, pod_key, current_phase, t)
    IN  IF _should_notify_phase_change(history, pod_key, current_phase)
        THEN IF GetPhase(history, pod_key, "None") # "None"
             THEN Outcome(written, <<SinkCall("pod_event", phase_data, success)>>,
                          success = Raise)
             ELSE Outcome(written, <<>>, FALSE)
        ELSE Outcome(history, <<>>, FALSE)

\* Variant: the phase is recorded after a sink call that returned failure too.
handle_pod_phase_event_record_failed(history, event_type, pod, cluster_name, t, env) ==
    LET pod_uid == pod.uid
        current_phase == CurrentPhase(pod)
        pod_key == PodKey(cluster_name, pod_uid)
        should_notify == _should_notify_phase_change(history, pod_key, current_phase)
        previous_phase == GetPhase(history, pod_key, "None")
        phase_data == _extract_pod_phase_data(history, pod, cluster_name, t)
        success == pod_event(phase_data, env)
        call == SinkCall("pod_event", phase_data, success)
        written == _update_phase_history(history, pod_key, current_phase, t)
    IN  IF should_notify
        THEN IF previous_phase # "None"
             THEN Outcome(IF success = Raise THEN history ELSE written,
                          <<call>>, success = Raise)
             ELSE Outcome(written, <<>>, FALSE)
        ELSE Outcome(history, <<>>, FALSE)

\* Variant: a suppressed event rewrites the record of its key, with a new
\* timestamp.
handle_pod_phase_event_refresh(history, event_type, pod, cluster_name, t, env) ==
    LET pod_uid == pod.uid
        current_phase == CurrentPhase(pod)
        pod_key == PodKey(cluster_name, pod_uid)
        should_notify == _should_notify_phase_change(history, pod_key, current_phase)
        previous_phase == GetPhase(history, pod_key, "None")
        phase_data == _extract_pod_phase_data(history, pod, cluster_name, t)
        success == pod_event(phase_data, env)
        call == SinkCall("pod_event", phase_data, success)
        written == _update_phase_history(history, pod_key, current_phase, t)
    IN  IF should_notify
        THEN IF previous_phase # "None"
             THEN Outcome(IF success = PyTrue THEN written ELSE history,
                          <<call>>, success = Raise)
             ELSE Outcome(written, <<>>, FALSE)
        ELSE Outcome(written, <<>>, FALSE)

\* Variant: a DELETED event is logged and dropped before the dedup.
handle_pod_phase_event_drop_deleted(history, event_type, pod, cluster_name, t, env) ==
    LET pod_uid == pod.uid
        current_phase == CurrentPhase(pod)
        pod_key == PodKey(cluster_name, pod_uid)
        should_notify == _should_notify_phase_change(history, pod_key, current_phase)
        previous_phase == GetPhase(history, pod_key, "None")
        phase_data == _extract_pod_phase_data(history, pod, cluster_name, t)
        success == pod_event(phase_data, env)
        call == SinkCall("pod_event", phase_data, success)
        written == _update_phase_history(history, pod_key, current_phase, t)
    IN  IF event_type = "DELETED"
        THEN Outcome(history, <<>>, FALSE)
        ELSE IF should_notify
        THEN IF previous_phase # "None"
             THEN Outcome(IF success = PyTrue THEN written ELSE history,
                          <<call>>, success = Raise)
             ELSE Outcome(written, <<>>, FALSE)
        ELSE Outcome(history, <<>>, FALSE)

\* Variant: a DELETED event removes the record of its key.
handle_pod_phase_event_forget_deleted(history, event_type, pod, cluster_name, t, env) ==
    LET pod_uid == pod.uid
        current_phase == CurrentPhase(pod)
        pod_key == PodKey(cluster_name, pod_uid)
        should_notify == _should_notify_phase_change(history, pod_key, current_phase)
        previous_phase == GetPhase(history, pod_key, "None")
        phase_data == _extract_pod_phase_data(history, pod, cluster_name, t)
        success == pod_event(phase_data, env)
        call == SinkCall("pod_event", phase_data, success)
        written == _update_phase_history(history, pod_key, current_phase, t)
    IN  IF event_type = "DELETED"
        THEN Outcome([k \in DOMAIN history \ {pod_key} |-> history[k]], <<>>, FALSE)
        ELSE IF should_notify
        THEN IF previous_phase # "None"
             THEN Outcome(IF success = PyTrue THEN written ELSE history,
                          <<call>>, success = Raise)
             ELSE Outcome(written, <<>>, FALSE)
        ELSE Outcome(history, <<>>, FALSE)

handle_pod_phase_event(history, event_type, pod, cluster_name, t, env) ==
    LET pod_uid == pod.uid
        current_phase == CurrentPhase(pod)
        pod_key == PodKey(cluster_name, pod_uid)
        should_notify == _should_notify_phase_change(history, pod_key, current_phase)
        previous_phase == GetPhase(history, pod_key, "None")
        phase_data == _extract_pod_phase_data(history, pod, cluster_name, t)
        success == pod_event(phase_data, env)
        call == SinkCall("pod_event", phase_data, success)
    IN  IF should_notify
        THEN IF previous_phase # "None"
             THEN IF success = Raise
                  THEN Outcome(history, <<call>>, TRUE)
                  ELSE IF success = PyTrue
                       THEN Outcome(_update_phase_history(history, pod_key, current_phase, t),
                                    <<call>>, FALSE)
                       ELSE Outcome(history, <<call>>, FALSE)
             ELSE Outcome(_update_phase_history(history, pod_key, current_phase, t),
                          <<>>, FALSE)
        ELSE Outcome(history, <<>>, FALSE)

\* Variant: the event type compared with 'Deleted', which no event carries.
handle_pvc_event_wrong_case(history, event_type, pvc, cluster_name, t, env) ==
    Outcome(history, <<>>, FALSE)

\* Variant: the sink is called for an event of any type.
handle_pvc_event_every_type(history, event_type, pvc, cluster_name, t, env) ==
    LET pvc_data == [metadata |-> [uid |-> pvc.uid],
                     event_type |-> event_type,
                     cluster_name |-> cluster_name,
                     event_timestamp |-> t]
        result == pvc_event(pvc_data, env)
    IN  Outcome(history, <<SinkCall("pvc_event", pvc_data, result)>>, result = Raise)

handle_pvc_event(history, event_type, pvc, cluster_name, t, env) ==
    LET pvc_data == [metadata |-> [uid |-> pvc.uid],
                     event_type |-> event_type,
                     cluster_name |-> cluster_name,
                     event_timestamp |-> t]
        result == pvc_event(pvc_data, env)
        call == SinkCall("pvc_event", pvc_data, result)
    IN  IF event_type = "DELETED"
        THEN Outcome(history, <<call>>, result = Raise)
        ELSE Outcome(history, <<>>, FALSE)

(***************************************************************************)
(* Initial state: the watcher is constructed, nothing is started.          *)
(***************************************************************************)
NoPod == [uid |-> PyNone, status |-> NoStatus]

\* Configuration(): the values of a configuration nobody filled in.
\* is_default tells whether set_default was called with it.
LibraryDefault ==
    [is_default |-> FALSE, host |-> "http://localhost", verify_ssl |-> TRUE, token |-> PyNone]

NoClient == [present |-> FALSE, host |-> PyNone, verify_ssl |-> PyNone, token |-> PyNone]

\* The PodPhaseWatcher before its first event.
IdleSingle == [history |-> EmptyHistory, pod_loop |-> "running", calls |-> <<>>, handled |-> 0]

\* The PodWatcher before its first event.
IdleLegacy ==
    [environment |-> "development", critical_events_only |-> FALSE, namespaces |-> {},
     event_type |-> PyNone, pod |-> NoPod, should_process |-> PyNone, outcome |-> PyNone]

\* A pod loop that handles no event: nothing received yet, nothing sent.
\* started and finished count the events whose handling began and ended, sent
\* lists the numbers of the events for which the sink was called, in the order
\* of the calls.
IdleThread ==
    [pc |-> "idle", event_type |-> PyNone, pod |-> NoPod, payload |-> <<>>,
     started |-> 0, finished |-> 0, sent |-> <<>>]

NoEvent ==
    [kind |-> "none", session |-> 0, cluster |-> PyNone, event_type |-> PyNone,
     uid |-> PyNone, phase |-> PyNone, pre |-> EmptyHistory, calls |-> <<>>,
     raised |-> FALSE, iso_calls |-> <<>>, seen |-> PyNone, peer |-> PyNone]

\* Nothing but the multi-cluster watcher runs: no configuration was made the
\* default, no client was created, the single-cluster watchers handled
\* nothing, and main was started with neither ENVIRONMENT nor an argument.
OthersAtRest ==
    /\ default_configuration = LibraryDefault
    /\ v1_client = [i \in 1..Len(clusters) |-> NoClient]
    /\ single = IdleSingle
    /\ legacy = IdleLegacy
    /\ os_environ = PyNone
    /\ sys_argv = <<>>
    /\ environment = "development"

Sessions == 1..Len(clusters)

\* The descriptors of the runs that follow the threads from start to end.
\* What a session does from its start to its end does not depend on its name:
\* every dict is named "c1".
LifecycleDescriptors == {d \in Descriptors : d.name \in {"c1", PyNone}}

Init ==
    /\ clusters \in SeqsUpTo(LifecycleDescriptors, MaxClusters)
    /\ main_pc = "start"
    /\ next_idx = 1
    /\ session = [i \in 1..Len(clusters) |-> "unstarted"]
    /\ loop = [i \in 1..Len(clusters) |-> [pod |-> "idle", pvc |-> "idle"]]
    /\ pod_phase_history = EmptyHistory
    /\ now = 0
    /\ handled = NoEvent
    /\ iso = [c \in ClusterNames |-> EmptyHistory]
    /\ pvc_seen = [k \in {} |-> PyNone]
    /\ run_log = <<>>
    /\ error_log = {}
    /\ thread = [i \in 1..Len(clusters) |-> IdleThread]
    /\ accessors = [k \in {} |-> {}]
    /\ OthersAtRest

\* The process ends when main returns, when an exception reaches main, which
\* calls sys.exit(1), or when KeyboardInterrupt ends the main thread; every
\* watcher thread is a daemon thread and ends with it.
ProcessAlive == main_pc \notin {"returned", "crashed", "interrupted"}

(***************************************************************************)
(* start_watching_all_clusters, run by the main thread.                    *)
(***************************************************************************)
\* Variant: the for loop is entered without the test of the list.
StartWatching_no_test ==
    /\ main_pc = "start"
    /\ main_pc' = "spawning"
    /\ UNCHANGED <<other_vars, clusters, next_idx, session, loop, pod_phase_history, now,
                   handled, iso, pvc_seen, run_log, error_log, thread, accessors>>

\* The test of the cluster list: "if not clusters" is true of an empty list
\* and of a missing one, which .get('clusters', []) makes an empty list.
StartWatching ==
    /\ main_pc = "start"
    /\ main_pc' = IF Len(clusters) = 0 THEN "returned" ELSE "spawning"
    /\ UNCHANGED <<other_vars, clusters, next_idx, session, loop, pod_phase_history, now,
                   handled, iso, pvc_seen, run_log, error_log, thread, accessors>>

\* One turn of the for loop: cluster_config.get('name'), then the thread is
\* created and started.  get is a method of dict; on any other entry the call
\* raises in the main thread, outside every try block of this method.
SpawnSession ==
    /\ main_pc = "spawning"
    /\ next_idx <= Len(clusters)
    /\ IF clusters[next_idx].is_dict
       THEN /\ session' = [session EXCEPT ![next_idx] = "setup"]
            /\ next_idx' = next_idx + 1
            /\ UNCHANGED main_pc
       ELSE /\ main_pc' = "crashed"
            /\ UNCHANGED <<session, next_idx>>
    /\ UNCHANGED <<other_vars, clusters, loop, pod_phase_history, now, handled, iso,
                   pvc_seen, run_log, error_log, thread, accessors>>

\* The for loop is over; the main thread starts joining.
BeginJoin ==
    /\ main_pc = "spawning"
    /\ next_idx > Len(clusters)
    /\ main_pc' = "joining"
    /\ UNCHANGED <<other_vars, clusters, next_idx, session, loop, pod_phase_history, now,
                   handled, iso, pvc_seen, run_log, error_log, thread, accessors>>

\* A join that waits for the first thread only.
JoinAll_first_only ==
    /\ main_pc = "joining"
    /\ session[1] = "terminated"
    /\ main_pc' = "returned"
    /\ UNCHANGED <<other_vars, clusters, next_idx, session, loop, pod_phase_history, now,
                   handled, iso, pvc_seen, run_log, error_log, thread, accessors>>

\* Every thread.join() has returned.
JoinAll ==
    /\ main_pc = "joining"
    /\ \A i \in Sessions : session[i] = "terminated"
    /\ main_pc' = "returned"
    /\ UNCHANGED <<other_vars, clusters, next_idx, session, loop, pod_phase_history, now,
                   handled, iso, pvc_seen, run_log, error_log, thread, accessors>>

(***************************************************************************)
(* _watch_cluster, run by the thread of session i.                         *)
(***************************************************************************)
\* A _watch_cluster without its except clause: the KeyError ends the thread
\* and "Error watching cluster" is never logged.
SetupCluster_uncaught(i) ==
    /\ ProcessAlive
    /\ session[i] = "setup"
    /\ IF clusters[i].has_host
       THEN /\ session' = [session EXCEPT ![i] = "watching"]
            /\ loop' = [loop EXCEPT ![i] = [pod |-> "connecting", pvc |-> "connecting"]]
       ELSE /\ session' = [session EXCEPT ![i] = "terminated"]
            /\ UNCHANGED loop
    /\ UNCHANGED <<other_vars, clusters, main_pc, next_idx, pod_phase_history, now, handled,
                   iso, pvc_seen, run_log, error_log, thread, accessors>>

\* _setup_cluster_client reads cluster_config['host']: a KeyError when the
\* descriptor has none, logged and raised again, caught by _watch_cluster.
\* Otherwise both streams are created and both loop threads started.
SetupCluster(i) ==
    /\ ProcessAlive
    /\ session[i] = "setup"
    /\ IF clusters[i].has_host
       THEN /\ session' = [session EXCEPT ![i] = "watching"]
            /\ loop' = [loop EXCEPT ![i] = [pod |-> "connecting", pvc |-> "connecting"]]
            /\ UNCHANGED error_log
       ELSE /\ session' = [session EXCEPT ![i] = "terminated"]
            /\ error_log' = error_log \cup {i}
            /\ UNCHANGED loop
    /\ UNCHANGED <<other_vars, clusters, main_pc, next_idx, pod_phase_history, now, handled,
                   iso, pvc_seen, run_log, thread, accessors>>

\* watch.stream is a generator: the request to the cluster is sent when the
\* loop thread asks for the first event.  The cluster answers and the stream
\* is open.
StreamOpened(i, kind) ==
    /\ ProcessAlive
    /\ session[i] = "watching"
    /\ loop[i][kind] = "connecting"
    /\ loop' = [loop EXCEPT ![i][kind] = "running"]
    /\ UNCHANGED <<other_vars, clusters, main_pc, next_idx, session, pod_phase_history, now,
                   handled, iso, pvc_seen, run_log, error_log, thread, accessors>>

\* The first request fails (authentication failure, unreachable host): the
\* exception leaves the loop thread, which ends.
StreamRefused(i, kind) ==
    /\ ProcessAlive
    /\ session[i] = "watching"
    /\ loop[i][kind] = "connecting"
    /\ loop' = [loop EXCEPT ![i][kind] = "refused"]
    /\ UNCHANGED <<other_vars, clusters, main_pc, next_idx, session, pod_phase_history, now,
                   handled, iso, pvc_seen, run_log, error_log, thread, accessors>>

\* Variant: the exception of one loop ends both loops of its session.
StreamError_both_loops(i, kind) ==
    /\ ProcessAlive
    /\ session[i] = "watching"
    /\ loop[i][kind] = "running"
    /\ loop' = [loop EXCEPT ![i] = [pod |-> "dead", pvc |-> "dead"]]
    /\ UNCHANGED <<other_vars, clusters, main_pc, next_idx, session, pod_phase_history, now,
                   handled, iso, pvc_seen, run_log, error_log, thread, accessors>>

\* Variant: the exception of one loop ends the loops of that kind of every
\* session.
StreamError_every_session(i, kind) ==
    /\ ProcessAlive
    /\ session[i] = "watching"
    /\ loop[i][kind] = "running"
    /\ loop' = [j \in DOMAIN loop |-> [loop[j] EXCEPT ![kind] = "dead"]]
    /\ UNCHANGED <<other_vars, clusters, main_pc, next_idx, session, pod_phase_history, now,
                   handled, iso, pvc_seen, run_log, error_log, thread, accessors>>

\* Iterating the open stream raises (network error, connection closed by the
\* server in mid-response, expired resource version): the loop thread ends with
\* the exception.  Nothing opens the stream again.
StreamError(i, kind) ==
    /\ ProcessAlive
    /\ session[i] = "watching"
    /\ loop[i][kind] = "running"
    /\ loop' = [loop EXCEPT ![i][kind] = "dead"]
    /\ UNCHANGED <<other_vars, clusters, main_pc, next_idx, session, pod_phase_history, now,
                   handled, iso, pvc_seen, run_log, error_log, thread, accessors>>

\* pod_thread.join() and pvc_thread.join() have returned; finally: stop().
\* Variant: the session joins its pod loop only.
SessionEnd_pod_only(i) ==
    /\ ProcessAlive
    /\ session[i] = "watching"
    /\ loop[i].pod \in {"dead", "refused"}
    /\ session' = [session EXCEPT ![i] = "terminated"]
    /\ UNCHANGED <<other_vars, clusters, main_pc, next_idx, loop, pod_phase_history, now,
                   handled, iso, pvc_seen, run_log, error_log, thread, accessors>>

\* pod_thread.join() and pvc_thread.join() have returned; the finally clause
\* calls watch_instance.stop() and _watch_cluster returns.
SessionEnd(i) ==
    /\ ProcessAlive
    /\ session[i] = "watching"
    /\ loop[i].pod \in {"dead", "refused"}
    /\ loop[i].pvc \in {"dead", "refused"}
    /\ session' = [session EXCEPT ![i] = "terminated"]
    /\ UNCHANGED <<other_vars, clusters, main_pc, next_idx, loop, pod_phase_history, now,
                   handled, iso, pvc_seen, run_log, error_log, thread, accessors>>

(***************************************************************************)
(* The watch loops: one event of the stream is received and handled.       *)
(***************************************************************************)
\* watch_pods of session i receives (event_type, pod) and calls
\* handle_pod_phase_event; an exception that leaves the handler ends the thread.
PodEventStep(i, event_type, pod, env) ==
    LET cluster_name == clusters[i].name
        out == handle_pod_phase_event(pod_phase_history, event_type, pod,
                                      cluster_name, now, env)
        alone == handle_pod_phase_event(iso[cluster_name], event_type, pod,
                                        cluster_name, now, env)
    IN  /\ ProcessAlive
        /\ session[i] = "watching"
        /\ loop[i].pod = "running"
        /\ pod_phase_history' = out.history
        /\ loop' = [loop EXCEPT ![i].pod = IF out.raised THEN "dead" ELSE "running"]
        /\ now' = now + 1
        /\ handled' = [kind |-> "pod", session |-> i, cluster |-> cluster_name,
                       event_type |-> event_type, uid |-> pod.uid,
                       phase |-> CurrentPhase(pod), pre |-> pod_phase_history,
                       calls |-> out.calls, raised |-> out.raised,
                       iso_calls |-> alone.calls, seen |-> PyNone,
                       peer |-> loop[i].pvc]
        /\ iso' = [iso EXCEPT ![cluster_name] = alone.history]
        /\ UNCHANGED <<clusters, main_pc, next_idx, session, pvc_seen>>

\* The pod loop handles one of the events of `types` x `pods`, the sink in
\* one of the conditions `envs`.
PodEventOf(i, bound, types, pods, envs) ==
    /\ now < bound
    /\ \E event_type \in types, pod \in pods, env \in envs :
          PodEventStep(i, event_type, pod, env)
    /\ UNCHANGED <<other_vars, run_log, error_log, thread, accessors>>

PodEvent(i, bound) == PodEventOf(i, bound, EventTypes, Pods, SinkEnvs)

\* watch_pvcs of session i receives (event_type, pvc) and calls handle_pvc_event.
PvcEventOf(i, bound, types, envs) ==
    /\ now < bound
    /\ ProcessAlive
    /\ session[i] = "watching"
    /\ loop[i].pvc = "running"
    /\ \E event_type \in types, pvc \in Pvcs, env \in envs :
          LET cluster_name == clusters[i].name
              key == PodKey(cluster_name, pvc.uid)
              out == handle_pvc_event(pod_phase_history, event_type, pvc,
                                      cluster_name, now, env)
          IN  /\ pod_phase_history' = out.history
              /\ loop' = [loop EXCEPT ![i].pvc = IF out.raised THEN "dead" ELSE "running"]
              /\ now' = now + 1
              /\ handled' = [kind |-> "pvc", session |-> i, cluster |-> cluster_name,
                             event_type |-> event_type, uid |-> pvc.uid,
                             phase |-> PyNone, pre |-> pod_phase_history,
                             calls |-> out.calls, raised |-> out.raised,
                             iso_calls |-> out.calls,
                             seen |-> IF key \in DOMAIN pvc_seen
                                      THEN pvc_seen[key] ELSE PyNone,
                             peer |-> loop[i].pod]
              /\ pvc_seen' = [k \in DOMAIN pvc_seen \cup {key} |->
                                IF k = key
                                THEN IF out.calls # <<>> THEN out.calls[1].result
                                     ELSE event_type
                                ELSE pvc_seen[k]]
    /\ UNCHANGED <<other_vars, clusters, main_pc, next_idx, session, iso, run_log, error_log, thread, accessors>>

\* The types a PVC event carries: the three the handler names, and one it
\* does not.
PvcEventTypes == EventTypes \cup {"BOOKMARK"}

PvcEvent(i, bound) == PvcEventOf(i, bound, PvcEventTypes, SinkEnvs)

\* The events and sink conditions of the runs that follow the threads from
\* start to end: deletions of one running pod and of one claim, a sink that
\* answers 200 or whose certificate cannot be loaded.
LifecycleTypes == {"DELETED"}
LifecyclePods == [uid : {"u1"}, status : {"Running"}]
LifecycleEnvs == {env \in SinkEnvs : env.http \in {"200", "not sent"}}

\* What the threads do once the configuration is loaded, with at most `bound`
\* events handled.
Step(bound) ==
    \/ StartWatching
    \/ SpawnSession
    \/ BeginJoin
    \/ JoinAll
    \/ \E i \in Sessions : SetupCluster(i)
    \/ \E i \in Sessions, kind \in {"pod", "pvc"} : StreamOpened(i, kind)
    \/ \E i \in Sessions, kind \in {"pod", "pvc"} : StreamRefused(i, kind)
    \/ \E i \in Sessions, kind \in {"pod", "pvc"} : StreamError(i, kind)
    \/ \E i \in Sessions : SessionEnd(i)
    \/ \E i \in Sessions : PodEventOf(i, bound, LifecycleTypes, LifecyclePods, LifecycleEnvs)
    \/ \E i \in Sessions : PvcEventOf(i, bound, LifecycleTypes, LifecycleEnvs)

\* Every cluster list of the configuration, each run handling few events.
Next == Step(MaxStartClock)

Spec == Init /\ [][Next]_vars

\* Two well-formed clusters of different names.  The runs of SpecEvents begin
\* when both sessions are watching with every stream open, and handle more
\* events.
TwoClusters ==
    <<[is_dict |-> TRUE, name |-> "c1", has_host |-> TRUE],
      [is_dict |-> TRUE, name |-> "c2", has_host |-> TRUE]>>

InitEvents ==
    /\ clusters = TwoClusters
    /\ main_pc = "joining"
    /\ next_idx = Len(clusters) + 1
    /\ session = [i \in 1..Len(clusters) |-> "watching"]
    /\ loop = [i \in 1..Len(clusters) |-> [pod |-> "running", pvc |-> "running"]]
    /\ pod_phase_history = EmptyHistory
    /\ now = 0
    /\ handled = NoEvent
    /\ iso = [c \in ClusterNames |-> EmptyHistory]
    /\ pvc_seen = [k \in {} |-> PyNone]
    /\ run_log = <<>>
    /\ error_log = {}
    /\ thread = [i \in 1..Len(clusters) |-> IdleThread]
    /\ accessors = [k \in {} |-> {}]
    /\ OthersAtRest

\* The streams deliver events and never fail.
NextEvents ==
    \/ \E i \in Sessions : PodEvent(i, MaxClock)
    \/ \E i \in Sessions : PvcEvent(i, MaxClock)

SpecEvents == InitEvents /\ [][NextEvents]_vars

(***************************************************************************)
(* Two clusters whose sessions are watching: every stream is opened or     *)
(* refused, delivers events, may fail at any moment; a session ends when   *)
(* both its loops have ended.                                              *)
(***************************************************************************)
LoopTypes == {"MODIFIED", "DELETED"}
LoopPods == [uid : {"u1"}, status : {"Pending", "Running"}]
LoopEnvs == {env \in SinkEnvs : env.http \in {"200", "500", "not sent"}}

InitLoops ==
    /\ clusters = TwoClusters
    /\ main_pc = "joining"
    /\ next_idx = Len(clusters) + 1
    /\ session = [i \in 1..Len(clusters) |-> "watching"]
    /\ loop = [i \in 1..Len(clusters) |-> [pod |-> "connecting", pvc |-> "connecting"]]
    /\ pod_phase_history = EmptyHistory
    /\ now = 0
    /\ handled = NoEvent
    /\ iso = [c \in ClusterNames |-> EmptyHistory]
    /\ pvc_seen = [k \in {} |-> PyNone]
    /\ run_log = <<>>
    /\ error_log = {}
    /\ thread = [i \in 1..Len(clusters) |-> IdleThread]
    /\ accessors = [k \in {} |-> {}]
    /\ OthersAtRest

LoopPodEvent(i) == PodEventOf(i, MaxLoopClock, LoopTypes, LoopPods, LoopEnvs)
LoopPvcEvent(i) == PvcEventOf(i, MaxLoopClock, LoopTypes, LoopEnvs)

NextLoops ==
    \/ JoinAll
    \/ \E i \in Sessions, kind \in {"pod", "pvc"} : StreamOpened(i, kind)
    \/ \E i \in Sessions, kind \in {"pod", "pvc"} : StreamRefused(i, kind)
    \/ \E i \in Sessions, kind \in {"pod", "pvc"} : StreamError(i, kind)
    \/ \E i \in Sessions : SessionEnd(i)
    \/ \E i \in Sessions : LoopPodEvent(i)
    \/ \E i \in Sessions : LoopPvcEvent(i)

SpecLoops == InitLoops /\ [][NextLoops]_vars

(***************************************************************************)
(* Two clusters whose sessions are watching, as in SpecLoops, with the two *)
(* things that happen to a watcher from outside: the operator interrupts   *)
(* the process, and a connection goes dead without a word.                 *)
(***************************************************************************)
\* Ctrl-C (or the shutdown of the service): KeyboardInterrupt is raised in the
\* main thread, inside thread.join().  It is no Exception, so main's except
\* clause does not catch it; the main thread ends and the interpreter exits.
\* No watcher thread is told anything: each is a daemon thread that ends
\* where it stands, and no watch_instance.stop() runs.
Interrupt ==
    /\ main_pc \in {"spawning", "joining"}
    /\ main_pc' = "interrupted"
    /\ UNCHANGED <<other_vars, clusters, next_idx, session, loop, pod_phase_history, now,
                   handled, iso, pvc_seen, run_log, error_log, thread, accessors>>

\* The connection of an open stream dies silently (no FIN, no RST reaches the
\* watcher).  stream() was called with no timeout_seconds and no
\* _request_timeout: the loop thread stays blocked in the read of the socket.
StreamSilent(i, kind) ==
    /\ ProcessAlive
    /\ session[i] = "watching"
    /\ loop[i][kind] = "running"
    /\ loop' = [loop EXCEPT ![i][kind] = "blocked"]
    /\ UNCHANGED <<other_vars, clusters, main_pc, next_idx, session, pod_phase_history, now,
                   handled, iso, pvc_seen, run_log, error_log, thread, accessors>>

NextOutside ==
    \/ Interrupt
    \/ JoinAll
    \/ \E i \in Sessions, kind \in {"pod", "pvc"} : StreamOpened(i, kind)
    \/ \E i \in Sessions, kind \in {"pod", "pvc"} : StreamRefused(i, kind)
    \/ \E i \in Sessions, kind \in {"pod", "pvc"} : StreamError(i, kind)
    \/ \E i \in Sessions, kind \in {"pod", "pvc"} : StreamSilent(i, kind)
    \/ \E i \in Sessions : SessionEnd(i)
    \/ \E i \in Sessions :
          PodEventOf(i, MaxStartClock, LifecycleTypes, LifecyclePods, LifecycleEnvs)
    \/ \E i \in Sessions : PvcEventOf(i, MaxStartClock, LifecycleTypes, LifecycleEnvs)

SpecOutside == InitLoops /\ [][NextOutside]_vars

(***************************************************************************)
(* handle_pod_phase_event step by step.  The pod loops of two sessions run *)
(* in two threads on the one pod_phase_history; a step is one access to    *)
(* the history or one end of the sink call, and the steps of the two       *)
(* threads interleave in every order.  CPython runs one bytecode at a      *)
(* time: a single dict lookup or store is one step.                        *)
(***************************************************************************)
\* Two descriptors that carry the same name.
SameNameClusters ==
    <<[is_dict |-> TRUE, name |-> "c1", has_host |-> TRUE],
      [is_dict |-> TRUE, name |-> "c1", has_host |-> TRUE]>>

ThreadTypes == {"MODIFIED"}
ThreadPods == [uid : {"u1"}, status : {"Pending", "Running"}]
ThreadEnvs == {env \in SinkEnvs : env.http \in {"200", "500", "not sent"}}
SuccessEnv == [cert_ok |-> TRUE, http |-> "200"]

InitThreads ==
    /\ clusters \in {TwoClusters, SameNameClusters}
    /\ main_pc = "joining"
    /\ next_idx = Len(clusters) + 1
    /\ session = [i \in 1..Len(clusters) |-> "watching"]
    /\ loop = [i \in 1..Len(clusters) |-> [pod |-> "running", pvc |-> "running"]]
    /\ pod_phase_history = EmptyHistory
    /\ now = 0
    /\ handled = NoEvent
    /\ iso = [c \in ClusterNames |-> EmptyHistory]
    /\ pvc_seen = [k \in {} |-> PyNone]
    /\ run_log = <<>>
    /\ error_log = {}
    /\ thread = [i \in 1..Len(clusters) |-> IdleThread]
    /\ accessors = [k \in {} |-> {}]
    /\ OthersAtRest

ThreadKey(i) == PodKey(clusters[i].name, thread[i].pod.uid)

\* The pod loop thread of session i exists and runs.
ThreadRuns(i) ==
    /\ ProcessAlive
    /\ session[i] = "watching"
    /\ loop[i].pod = "running"

\* Variant: the loop hands the event to a worker and takes the next event at
\* once.
CanReceive_while_handling(i) == TRUE

\* "for event in pod_stream" calls the handler in the loop thread itself: the
\* next event is taken when the call has returned.
CanReceive(i) == thread[i].pc = "idle"

\* Session i accessed the record of key.
Accessed(i, key) ==
    [k \in DOMAIN accessors \cup {key} |->
        IF k = key
        THEN (IF k \in DOMAIN accessors THEN accessors[k] ELSE {}) \cup {i}
        ELSE accessors[k]]

\* The handling of the event ends: iso[c] takes the same event, with the same
\* sink answer, on the history of cluster c alone.
Alone(i, env) ==
    [iso EXCEPT ![clusters[i].name] =
        handle_pod_phase_event(iso[clusters[i].name], thread[i].event_type,
                               thread[i].pod, clusters[i].name, now, env).history]

\* The loop takes the next event and the handler runs up to the return of
\* _should_notify_phase_change, which reads the record of the key.
PodReceive(i) ==
    /\ ThreadRuns(i)
    /\ CanReceive(i)
    /\ thread[i].started < MaxThreadEvents
    /\ \E event_type \in ThreadTypes, pod \in ThreadPods :
          LET key == PodKey(clusters[i].name, pod.uid)
              received == [thread[i] EXCEPT !.event_type = event_type, !.pod = pod,
                                            !.payload = <<>>, !.started = @ + 1]
          IN  /\ now' = now + 1
              /\ accessors' = Accessed(i, key)
              /\ IF _should_notify_phase_change(pod_phase_history, key, CurrentPhase(pod))
                 THEN /\ thread' = [thread EXCEPT ![i] = [received EXCEPT !.pc = "notify"]]
                      /\ UNCHANGED iso
                 ELSE /\ thread' = [thread EXCEPT ![i] =
                                      [received EXCEPT !.pc = "idle", !.finished = @ + 1]]
                      /\ iso' = [iso EXCEPT ![clusters[i].name] =
                                    handle_pod_phase_event(iso[clusters[i].name], event_type,
                                        pod, clusters[i].name, now + 1, SuccessEnv).history]
    /\ UNCHANGED <<other_vars, clusters, main_pc, next_idx, session, loop, pod_phase_history,
                   handled, pvc_seen, run_log, error_log>>

\* previous_phase = self.pod_phase_history.get(pod_key, {}).get("phase", "None")
\* and the test of it.
PodReadPrevious(i) ==
    /\ ThreadRuns(i)
    /\ thread[i].pc = "notify"
    /\ thread' = [thread EXCEPT ![i].pc =
                     IF GetPhase(pod_phase_history, ThreadKey(i), "None") # "None"
                     THEN "extract" ELSE "initial"]
    /\ accessors' = Accessed(i, ThreadKey(i))
    /\ UNCHANGED <<other_vars, clusters, main_pc, next_idx, session, loop, pod_phase_history, now,
                   handled, iso, pvc_seen, run_log, error_log>>

\* The else branch: the first phase is recorded, nothing is sent.
PodRecordInitial(i) ==
    /\ ThreadRuns(i)
    /\ thread[i].pc = "initial"
    /\ pod_phase_history' = _update_phase_history(pod_phase_history, ThreadKey(i),
                                                    CurrentPhase(thread[i].pod), now)
    /\ thread' = [thread EXCEPT ![i].pc = "idle", ![i].finished = @ + 1]
    /\ iso' = Alone(i, SuccessEnv)
    /\ accessors' = Accessed(i, ThreadKey(i))
    /\ UNCHANGED <<other_vars, clusters, main_pc, next_idx, session, loop, now, handled,
                   pvc_seen, run_log, error_log>>

\* Variant: pod_event is entered under a lock that every loop shares; a loop
\* waits while another one is inside the sink call.
PodExtract_one_at_a_time(i) ==
    /\ ThreadRuns(i)
    /\ thread[i].pc = "extract"
    /\ \A j \in Sessions \ {i} : thread[j].pc # "in_sink"
    /\ thread' = [thread EXCEPT
                     ![i].pc = "in_sink",
                     ![i].payload = _extract_pod_phase_data(pod_phase_history, thread[i].pod,
                                                            clusters[i].name, now),
                     ![i].sent = Append(@, thread[i].started)]
    /\ accessors' = Accessed(i, ThreadKey(i))
    /\ UNCHANGED <<other_vars, clusters, main_pc, next_idx, session, loop, pod_phase_history, now,
                   handled, iso, pvc_seen, run_log, error_log>>

\* _extract_pod_phase_data reads the record once more for the payload; then
\* pod_event is called and the request is on its way.
PodExtract(i) ==
    /\ ThreadRuns(i)
    /\ thread[i].pc = "extract"
    /\ thread' = [thread EXCEPT
                     ![i].pc = "in_sink",
                     ![i].payload = _extract_pod_phase_data(pod_phase_history, thread[i].pod,
                                                            clusters[i].name, now),
                     ![i].sent = Append(@, thread[i].started)]
    /\ accessors' = Accessed(i, ThreadKey(i))
    /\ UNCHANGED <<other_vars, clusters, main_pc, next_idx, session, loop, pod_phase_history, now,
                   handled, iso, pvc_seen, run_log, error_log>>

\* pod_event returns True or False, or raises; the exception ends the loop
\* thread.
PodSinkReturn(i) ==
    /\ ThreadRuns(i)
    /\ thread[i].pc = "in_sink"
    /\ \E env \in ThreadEnvs :
          LET success == pod_event(thread[i].payload, env)
          IN  IF success = PyTrue
              THEN /\ thread' = [thread EXCEPT ![i].pc = "commit"]
                   /\ UNCHANGED <<loop, iso>>
              ELSE /\ thread' = [thread EXCEPT ![i].pc = "idle", ![i].finished = @ + 1]
                   /\ loop' = [loop EXCEPT ![i].pod =
                                  IF success = Raise THEN "dead" ELSE "running"]
                   /\ iso' = Alone(i, env)
    /\ UNCHANGED <<other_vars, clusters, main_pc, next_idx, session, pod_phase_history, now,
                   handled, pvc_seen, run_log, error_log, accessors>>

\* if success: self._update_phase_history(pod_key, current_phase)
PodCommit(i) ==
    /\ ThreadRuns(i)
    /\ thread[i].pc = "commit"
    /\ pod_phase_history' = _update_phase_history(pod_phase_history, ThreadKey(i),
                                                    CurrentPhase(thread[i].pod), now)
    /\ thread' = [thread EXCEPT ![i].pc = "idle", ![i].finished = @ + 1]
    /\ iso' = Alone(i, SuccessEnv)
    /\ accessors' = Accessed(i, ThreadKey(i))
    /\ UNCHANGED <<other_vars, clusters, main_pc, next_idx, session, loop, now, handled,
                   pvc_seen, run_log, error_log>>

NextThreads ==
    \/ \E i \in Sessions : PodReceive(i)
    \/ \E i \in Sessions : PodReadPrevious(i)
    \/ \E i \in Sessions : PodRecordInitial(i)
    \/ \E i \in Sessions : PodExtract(i)
    \/ \E i \in Sessions : PodSinkReturn(i)
    \/ \E i \in Sessions : PodCommit(i)

SpecThreads == InitThreads /\ [][NextThreads]_vars

(***************************************************************************)
(* Pod snapshots with every part the translator reads, any of which may be *)
(* absent.  An absent object is a record whose `present` is FALSE, an      *)
(* absent string or time is PyNone, an absent or empty list is <<>>.       *)
(***************************************************************************)
NoSubState == [present |-> FALSE, reason |-> PyNone]
WaitingStates == {NoSubState} \cup [present : {TRUE}, reason : {"CrashLoopBackOff", PyNone}]
TerminatedStates == {NoSubState} \cup [present : {TRUE}, reason : {"Error"}]

\* cs.state: absent, or an object whose running, waiting and terminated are
\* each set or not.
NoContainerState ==
    [present |-> FALSE, running |-> FALSE, waiting |-> NoSubState, terminated |-> NoSubState]
ContainerStates ==
    {NoContainerState}
        \cup [present : {TRUE}, running : BOOLEAN,
              waiting : WaitingStates, terminated : TerminatedStates]

ContainerStatuses ==
    [name : {"app"}, ready : {FALSE}, restart_count : {0}, state : ContainerStates]

NoPodSpec == [present |-> FALSE, node_name |-> PyNone]
PodSpecs == {NoPodSpec, [present |-> TRUE, node_name |-> "node-1"]}

CreationTimes == {PyNone, "2026-01-01 00:00:00"}

SnapshotNamespaces == {"prod", "dev", PyNone}

\* A pod without status has no container statuses either.
Snapshots ==
    [uid : {"u1"}, name : {"web"}, namespace : SnapshotNamespaces,
     status : {"Pending", "Running"}, spec : PodSpecs,
     creation_timestamp : CreationTimes,
     container_statuses : {<<>>} \cup {<<cs>> : cs \in ContainerStatuses}]
    \cup
    [uid : {"u1"}, name : {"web"}, namespace : SnapshotNamespaces,
     status : {NoStatus}, spec : PodSpecs,
     creation_timestamp : CreationTimes, container_statuses : {<<>>}]

\* datetime.isoformat(): date and time joined by "T".
isoformat(time) ==
    IF time = "2026-01-01 00:00:00" THEN "2026-01-01T00:00:00" ELSE Raise

\* Variant: waiting is tested before running.
_get_container_state_waiting_first(state) ==
    IF state.waiting.present THEN "Waiting (" \o Str(state.waiting.reason) \o ")"
    ELSE IF state.running THEN "Running"
    ELSE IF state.terminated.present
         THEN "Terminated (" \o Str(state.terminated.reason) \o ")"
    ELSE "Unknown"

_get_container_state(state) ==
    IF state.running THEN "Running"
    ELSE IF state.waiting.present THEN "Waiting (" \o Str(state.waiting.reason) \o ")"
    ELSE IF state.terminated.present
         THEN "Terminated (" \o Str(state.terminated.reason) \o ")"
    ELSE "Unknown"

\* Variant: pod.spec.node_name with no test of pod.spec.
node_name_unguarded(pod) ==
    IF pod.spec.present THEN pod.spec.node_name ELSE Raise

\* pod.spec.node_name if pod.spec else None
node_name(pod) ==
    IF pod.spec.present THEN pod.spec.node_name ELSE PyNone

creation_timestamp(pod) ==
    IF pod.creation_timestamp # PyNone THEN isoformat(pod.creation_timestamp) ELSE PyNone

instance_info(pod, cluster_name) ==
    [pod_name |-> pod.name,
     namespace |-> pod.namespace,
     uid |-> pod.uid,
     node_name |-> node_name(pod),
     creation_timestamp |-> creation_timestamp(pod),
     cluster_name |-> cluster_name]

\* The loop over pod.status.container_statuses, entered when status and the
\* list are there and the list is not empty.
container_info(pod) ==
    IF pod.status # NoStatus /\ pod.container_statuses # <<>>
    THEN [n \in 1..Len(pod.container_statuses) |->
            LET cs == pod.container_statuses[n]
            IN  [name |-> cs.name,
                 ready |-> cs.ready,
                 restart_count |-> cs.restart_count,
                 state |-> IF cs.state.present THEN _get_container_state(cs.state)
                           ELSE "Unknown"]]
    ELSE <<>>

\* The whole dict _extract_pod_phase_data returns; its part "phase" carries
\* what _extract_pod_phase_data above gives.
phase_data(history, pod, cluster_name, t) ==
    [instance |-> instance_info(pod, cluster_name),
     phase |-> [current_phase |-> CurrentPhase(pod),
                previous_phase |-> GetPhase(history, PodKey(cluster_name, pod.uid), PyNone),
                phase_change_timestamp |-> t,
                cluster_name |-> cluster_name,
                conditions |-> <<>>],
     containers |-> container_info(pod),
     cluster_name |-> cluster_name,
     event_timestamp |-> t]

\* config['watcher']['namespaces'] of the runs of SpecSnapshots: an allow-list
\* is configured.
target_namespaces == {"prod"}

SnapshotEnvs == {env \in SinkEnvs : env.http \in {"200", "500", "not sent"}}

(***************************************************************************)
(* One cluster "c1" whose pod loop handles a run of events for one pod,    *)
(* every event and what it did appended to run_log.                        *)
(***************************************************************************)
OneCluster == <<[is_dict |-> TRUE, name |-> "c1", has_host |-> TRUE]>>

RunPods == [uid : {"u1"}, status : Phases]

InitRun ==
    /\ clusters = OneCluster
    /\ main_pc = "joining"
    /\ next_idx = Len(clusters) + 1
    /\ session = [i \in 1..Len(clusters) |-> "watching"]
    /\ loop = [i \in 1..Len(clusters) |-> [pod |-> "running", pvc |-> "running"]]
    /\ pod_phase_history = EmptyHistory
    /\ now = 0
    /\ handled = NoEvent
    /\ iso = [c \in ClusterNames |-> EmptyHistory]
    /\ pvc_seen = [k \in {} |-> PyNone]
    /\ run_log = <<>>
    /\ error_log = {}
    /\ thread = [i \in 1..Len(clusters) |-> IdleThread]
    /\ accessors = [k \in {} |-> {}]
    /\ OthersAtRest

RunPodEvent(i) ==
    /\ Len(run_log) < MaxRun
    /\ \E event_type \in EventTypes, pod \in RunPods, env \in SinkEnvs :
          /\ PodEventStep(i, event_type, pod, env)
          /\ run_log' = Append(run_log,
                 [cluster |-> clusters[i].name,
                  uid |-> pod.uid,
                  phase |-> CurrentPhase(pod),
                  calls |-> handled'.calls,
                  recorded |-> GetPhase(pod_phase_history',
                                        PodKey(clusters[i].name, pod.uid), PyNone)])
    /\ UNCHANGED <<other_vars, error_log, thread, accessors>>

NextRun == \E i \in Sessions : RunPodEvent(i)

SpecRun == InitRun /\ [][NextRun]_vars

\* The pod loop of one cluster handles snapshots; run_log holds the snapshot
\* handled last and its translation.
SnapshotEvent(i) ==
    /\ now < MaxSnapshotClock
    /\ \E pod \in Snapshots, env \in SnapshotEnvs :
          /\ PodEventStep(i, "MODIFIED", pod, env)
          /\ run_log' = <<[pod |-> pod,
                           phase_data |-> phase_data(pod_phase_history, pod,
                                                     clusters[i].name, now)]>>
    /\ UNCHANGED <<other_vars, error_log, thread, accessors>>

NextSnapshots == \E i \in Sessions : SnapshotEvent(i)

SpecSnapshots == InitRun /\ [][NextSnapshots]_vars

(***************************************************************************)
(* The single-cluster PodPhaseWatcher (watcher/pod_phase_watcher.py) next  *)
(* to the multi-cluster watcher with one cluster: both are fed the same    *)
(* pod events and meet the same sink.                                      *)
(***************************************************************************)
\* self.clusterapi_client.update_pod_status(...): ClusterApiClient has
\* the methods pod_event, pvc_event and health_check and no other; the
\* attribute lookup raises AttributeError before anything is sent.
update_pod_status(pod_data, env) == Raise

\* PodPhaseWatcher._should_notify_phase_change: the key is the UID alone.
single_should_notify_phase_change(history, pod_uid, current_phase) ==
    IF pod_uid \notin DOMAIN history THEN TRUE
    ELSE history[pod_uid].phase # current_phase

\* PodPhaseWatcher.handle_pod_phase_event.  A sink call is listed in the
\* outcome when the request function of the sink was entered.
single_handle_pod_phase_event(history, event_type, pod, t, env) ==
    LET pod_uid == pod.uid
        current_phase == CurrentPhase(pod)
        should_notify == single_should_notify_phase_change(history, pod_uid, current_phase)
        previous_phase == GetPhase(history, pod_uid, "None")
        pod_data == [uid |-> pod_uid, current_phase |-> current_phase,
                       previous_phase |-> GetPhase(history, pod_uid, PyNone),
                       cluster_name |-> PyNone, event_timestamp |-> t]
        success == update_pod_status(pod_data, env)
        call == SinkCall("update_pod_status", pod_data, success)
        written == [k \in DOMAIN history \cup {pod_uid} |->
                      IF k = pod_uid THEN [phase |-> current_phase, timestamp |-> t]
                      ELSE history[k]]
    IN  IF should_notify
        THEN IF previous_phase # "None"
             THEN IF success = Raise
                  THEN Outcome(history, <<>>, TRUE)
                  ELSE IF success = PyTrue
                       THEN Outcome(written, <<call>>, FALSE)
                       ELSE Outcome(history, <<call>>, FALSE)
             ELSE Outcome(written, <<>>, FALSE)
        ELSE Outcome(history, <<>>, FALSE)

\* watch_pods of the PodPhaseWatcher takes the event; an exception that
\* leaves the handler ends its thread, and a thread that ended takes nothing.
SingleStep(event_type, pod, env) ==
    IF single.pod_loop = "running"
    THEN LET out == single_handle_pod_phase_event(single.history, event_type, pod, now, env)
         IN  [history |-> out.history,
              pod_loop |-> IF out.raised THEN "dead" ELSE "running",
              calls |-> out.calls,
              handled |-> single.handled + 1]
    ELSE single

\* One event of the stream reaches the pod loop of the multi-cluster watcher
\* and the pod loop of the PodPhaseWatcher, the sink being in the same
\* condition for both.
BothPodEvent(i) ==
    /\ Len(run_log) < MaxSingleRun
    /\ \E event_type \in EventTypes, pod \in RunPods, env \in SinkEnvs :
          /\ PodEventStep(i, event_type, pod, env)
          /\ single' = SingleStep(event_type, pod, env)
          /\ run_log' = Append(run_log,
                 [cluster |-> clusters[i].name,
                  uid |-> pod.uid,
                  phase |-> CurrentPhase(pod),
                  calls |-> handled'.calls,
                  recorded |-> GetPhase(pod_phase_history',
                                        PodKey(clusters[i].name, pod.uid), PyNone)])
    /\ UNCHANGED <<error_log, thread, accessors>>
    /\ UNCHANGED <<default_configuration, v1_client, legacy, os_environ, sys_argv, environment>>

NextSingle == \E i \in Sessions : BothPodEvent(i)

SpecSingle == InitRun /\ [][NextSingle]_vars

(***************************************************************************)
(* The PodWatcher (watcher/pod_watcher.py): its event filter and handler.  *)
(* legacy holds the environment it was constructed with, the options       *)
(* watcher.alerts.critical_events_only and watcher.namespaces of its       *)
(* configuration, and the event it handled last with what became of it.    *)
(***************************************************************************)
\* A pod as the PodWatcher reads it: status is the phase, PyNone when the
\* status object has no phase, NoStatus when there is no status object.
LegacyPods ==
    [uid : {"u1"}, namespace : {"prod", "dev"},
     status : {"Pending", "Running", "Failed", "Succeeded", PyNone, NoStatus}]

InitLegacy ==
    /\ clusters = <<>>
    /\ main_pc = "start"
    /\ next_idx = 1
    /\ session = <<>>
    /\ loop = <<>>
    /\ pod_phase_history = EmptyHistory
    /\ now = 0
    /\ handled = NoEvent
    /\ iso = [c \in ClusterNames |-> EmptyHistory]
    /\ pvc_seen = [k \in {} |-> PyNone]
    /\ run_log = <<>>
    /\ error_log = {}
    /\ thread = <<>>
    /\ accessors = [k \in {} |-> {}]
    /\ default_configuration = LibraryDefault
    /\ v1_client = <<>>
    /\ single = IdleSingle
    /\ legacy \in [environment : {"development", "staging", "production"},
                    critical_events_only : BOOLEAN,
                    namespaces : {{}, {"prod"}},
                    event_type : {PyNone}, pod : {NoPod},
                    should_process : {PyNone}, outcome : {PyNone}]
    /\ os_environ = PyNone
    /\ sys_argv = <<>>
    /\ environment = legacy.environment

\* Variant: the filter is applied in every environment.
should_process_event_every_environment(watcher, event_type, pod) ==
    IF /\ watcher.critical_events_only
       /\ event_type \notin {"DELETED"}
       /\ pod.status # NoStatus
       /\ pod.status \notin {"Failed", "Succeeded"}
    THEN FALSE
    ELSE TRUE

\* PodWatcher.should_process_event
should_process_event(watcher, event_type, pod) ==
    IF watcher.environment = "production"
    THEN IF /\ watcher.critical_events_only
            /\ event_type \notin {"DELETED"}
            /\ pod.status # NoStatus
            /\ pod.status \notin {"Failed", "Succeeded"}
         THEN FALSE
         ELSE TRUE
    ELSE TRUE

\* PodWatcher.handle_pod_event: the event filter, the namespace filter, then
\* the extraction of the pod data; the call of the sink is commented out.
handle_pod_event(watcher, event_type, pod) ==
    IF ~should_process_event(watcher, event_type, pod) THEN "dropped"
    ELSE IF watcher.namespaces # {} /\ pod.namespace \notin watcher.namespaces
         THEN "skipped"
    ELSE "extracted"

\* The loop of PodWatcher.start_watching hands one event to handle_pod_event.
LegacyPodEvent ==
    /\ \E event_type \in EventTypes, pod \in LegacyPods :
          legacy' = [legacy EXCEPT
                        !.event_type = event_type,
                        !.pod = pod,
                        !.should_process =
                            IF should_process_event(legacy, event_type, pod)
                            THEN PyTrue ELSE PyFalse,
                        !.outcome = handle_pod_event(legacy, event_type, pod)]
    /\ UNCHANGED watcher_vars
    /\ UNCHANGED <<default_configuration, v1_client, single, os_environ, sys_argv, environment>>

NextLegacy == LegacyPodEvent

SpecLegacy == InitLegacy /\ [][NextLegacy]_vars

(***************************************************************************)
(* main: the environment is chosen, the watcher is constructed and         *)
(* started.  sys_argv holds the arguments after the program name.          *)
(***************************************************************************)
supported_environments == {"development", "staging", "production"}

\* What ENVIRONMENT or the first argument may hold: a supported environment
\* or another text.
EnvironmentTexts == supported_environments \cup {"qa"}

InitMain ==
    /\ clusters = OneCluster
    /\ main_pc = "main"
    /\ next_idx = 1
    /\ session = [i \in 1..Len(clusters) |-> "unstarted"]
    /\ loop = [i \in 1..Len(clusters) |-> [pod |-> "idle", pvc |-> "idle"]]
    /\ pod_phase_history = EmptyHistory
    /\ now = 0
    /\ handled = NoEvent
    /\ iso = [c \in ClusterNames |-> EmptyHistory]
    /\ pvc_seen = [k \in {} |-> PyNone]
    /\ run_log = <<>>
    /\ error_log = {}
    /\ thread = [i \in 1..Len(clusters) |-> IdleThread]
    /\ accessors = [k \in {} |-> {}]
    /\ default_configuration = LibraryDefault
    /\ v1_client = [i \in 1..Len(clusters) |-> NoClient]
    /\ single = IdleSingle
    /\ legacy = IdleLegacy
    /\ os_environ \in EnvironmentTexts \cup {PyNone}
    /\ sys_argv \in {<<>>} \cup {<<text>> : text \in EnvironmentTexts}
    /\ environment = PyNone

\* os.getenv('ENVIRONMENT', 'development')
getenv(value, default) == IF value # PyNone THEN value ELSE default

\* The first statements of main: the environment is read from ENVIRONMENT,
\* then replaced by sys.argv[1] when an argument was given.
choose_environment(environ, argv) ==
    IF Len(argv) > 0 THEN argv[1] ELSE getenv(environ, "development")

\* main up to the call of start_watching_all_clusters: sys.exit(1) on an
\* environment that is not supported.
ChooseEnvironment ==
    /\ main_pc = "main"
    /\ environment' = choose_environment(os_environ, sys_argv)
    /\ main_pc' = IF environment' \in supported_environments THEN "start" ELSE "exited"
    /\ UNCHANGED <<clusters, next_idx, session, loop, pod_phase_history, now,
                   handled, iso, pvc_seen, run_log, error_log, thread, accessors>>
    /\ UNCHANGED <<default_configuration, v1_client, single, legacy, os_environ, sys_argv>>

NextMain ==
    \/ ChooseEnvironment
    \/ StartWatching
    \/ SpawnSession
    \/ BeginJoin
    \/ \E i \in Sessions : SetupCluster(i)

SpecMain == InitMain /\ [][NextMain]_vars

(***************************************************************************)
(* _setup_cluster_client, followed statement by statement: the sessions of *)
(* two clusters run it at the same time.  A descriptor has a host or not,   *)
(* a token or not, and verify_ssl set or cleared.                          *)
(***************************************************************************)
ClientDescriptorsOf(name, host, token) ==
    [is_dict : {TRUE}, name : {name}, has_host : BOOLEAN, host : {host},
     verify_ssl : BOOLEAN, token : {token, PyNone}]

InitClients ==
    /\ clusters \in {<<d1, d2>> : d1 \in ClientDescriptorsOf("c1", "https://h1", "t1"),
                                  d2 \in ClientDescriptorsOf("c2", "https://h2", "t2")}
    /\ main_pc = "joining"
    /\ next_idx = Len(clusters) + 1
    /\ session = [i \in 1..Len(clusters) |-> "setup"]
    /\ loop = [i \in 1..Len(clusters) |-> [pod |-> "idle", pvc |-> "idle"]]
    /\ pod_phase_history = EmptyHistory
    /\ now = 0
    /\ handled = NoEvent
    /\ iso = [c \in ClusterNames |-> EmptyHistory]
    /\ pvc_seen = [k \in {} |-> PyNone]
    /\ run_log = <<>>
    /\ error_log = {}
    /\ thread = [i \in 1..Len(clusters) |-> IdleThread]
    /\ accessors = [k \in {} |-> {}]
    /\ OthersAtRest

\* configuration = Configuration() with host, verify_ssl and, when the
\* descriptor has a token, api_key filled in.
ConfigurationOf(cluster_config) ==
    [is_default |-> TRUE, host |-> cluster_config.host,
     verify_ssl |-> cluster_config.verify_ssl, token |-> cluster_config.token]

\* The configuration is built; cluster_config['host'] raises KeyError when
\* there is no host.  client.Configuration.set_default(configuration) is
\* inside "if cluster_config.get('token')".
SetDefault(i) ==
    /\ ProcessAlive
    /\ session[i] = "setup"
    /\ IF clusters[i].has_host
       THEN /\ default_configuration' =
                  IF clusters[i].token # PyNone THEN ConfigurationOf(clusters[i])
                  ELSE default_configuration
            /\ session' = [session EXCEPT ![i] = "configured"]
            /\ UNCHANGED error_log
       ELSE /\ session' = [session EXCEPT ![i] = "terminated"]
            /\ error_log' = error_log \cup {i}
            /\ UNCHANGED default_configuration
    /\ UNCHANGED <<clusters, main_pc, next_idx, loop, pod_phase_history, now, handled,
                   iso, pvc_seen, run_log, thread, accessors>>
    /\ UNCHANGED <<v1_client, single, legacy, os_environ, sys_argv, environment>>

\* return client.CoreV1Api(): the client is built with no argument and takes
\* a copy of the default configuration of the process as it is at this moment.
CreateClient(i) ==
    /\ ProcessAlive
    /\ session[i] = "configured"
    /\ v1_client' = [v1_client EXCEPT ![i] =
                        [present |-> TRUE, host |-> default_configuration.host,
                         verify_ssl |-> default_configuration.verify_ssl,
                         token |-> default_configuration.token]]
    /\ session' = [session EXCEPT ![i] = "watching"]
    /\ loop' = [loop EXCEPT ![i] = [pod |-> "connecting", pvc |-> "connecting"]]
    /\ UNCHANGED <<clusters, main_pc, next_idx, pod_phase_history, now, handled,
                   iso, pvc_seen, run_log, error_log, thread, accessors>>
    /\ UNCHANGED <<default_configuration, single, legacy, os_environ, sys_argv, environment>>

NextClients ==
    \/ \E i \in Sessions : SetDefault(i)
    \/ \E i \in Sessions : CreateClient(i)

SpecClients == InitClients /\ [][NextClients]_vars

(***************************************************************************)
(* Two clusters whose names are any two different values a descriptor can  *)
(* hold under 'name' (a text, with or without a colon, or nothing), and    *)
(* pods with any text as UID.                                              *)
(***************************************************************************)
KeyNames == {"a", "a:b", "None", PyNone}
KeyUids == {"c", "b:c"}
KeyPods == [uid : KeyUids, status : {"Pending", "Running"}]

InitKeys ==
    /\ clusters \in {c \in [1..2 -> [is_dict : {TRUE}, name : KeyNames, has_host : {TRUE}]] :
                        c[1].name # c[2].name}
    /\ main_pc = "joining"
    /\ next_idx = Len(clusters) + 1
    /\ session = [i \in 1..Len(clusters) |-> "watching"]
    /\ loop = [i \in 1..Len(clusters) |-> [pod |-> "running", pvc |-> "running"]]
    /\ pod_phase_history = EmptyHistory
    /\ now = 0
    /\ handled = NoEvent
    /\ iso = [c \in KeyNames |-> EmptyHistory]
    /\ pvc_seen = [k \in {} |-> PyNone]
    /\ run_log = <<>>
    /\ error_log = {}
    /\ thread = [i \in 1..Len(clusters) |-> IdleThread]
    /\ accessors = [k \in {} |-> {}]
    /\ OthersAtRest

\* The pod loop of session i handles an event; run_log takes its cluster name
\* and UID and what the handler did.
KeyPodEvent(i) ==
    /\ Len(run_log) < MaxKeyEvents
    /\ \E pod \in KeyPods :
          /\ PodEventStep(i, "MODIFIED", pod, SuccessEnv)
          /\ run_log' = Append(run_log,
                 [cluster |-> clusters[i].name,
                  uid |-> pod.uid,
                  phase |-> CurrentPhase(pod),
                  calls |-> handled'.calls,
                  recorded |-> GetPhase(pod_phase_history',
                                        PodKey(clusters[i].name, pod.uid), PyNone)])
    /\ UNCHANGED <<other_vars, error_log, thread, accessors>>

NextKeys == \E i \in Sessions : KeyPodEvent(i)

SpecKeys == InitKeys /\ [][NextKeys]_vars

(***************************************************************************)
(* Properties.                                                             *)
(***************************************************************************)
HandledKey == PodKey(handled.cluster, handled.uid)

\* The record a history holds for a key: <<record>>, or <<>> when it holds none.
Rec(history, key) == IF key \in DOMAIN history THEN <<history[key]>> ELSE <<>>

\* C1. First-observation silence: a pod event whose key has no record makes no
\* sink call and leaves a record holding the event's phase.
C1_FirstObservationSilence ==
    (handled.kind = "pod" /\ HandledKey \notin DOMAIN handled.pre)
        => /\ handled.calls = <<>>
           /\ HandledKey \in DOMAIN pod_phase_history
           /\ pod_phase_history[HandledKey].phase = handled.phase

C1_Witness ==
    /\ handled.kind = "pod"
    /\ HandledKey \notin DOMAIN handled.pre
    /\ HandledKey \in DOMAIN pod_phase_history
    /\ handled.calls = <<>>

\* C2. Transition detection: a pod event whose phase differs from the recorded
\* phase of its key makes exactly one sink call, pod_event, whose payload has
\* previous_phase = the recorded phase and current_phase = the event's phase.
C2_TransitionDetection ==
    (/\ handled.kind = "pod"
     /\ HandledKey \in DOMAIN handled.pre
     /\ handled.pre[HandledKey].phase # handled.phase)
        => /\ Len(handled.calls) = 1
           /\ handled.calls[1].api = "pod_event"
           /\ handled.calls[1].payload.previous_phase = handled.pre[HandledKey].phase
           /\ handled.calls[1].payload.current_phase = handled.phase
           /\ handled.calls[1].payload.uid = handled.uid
           /\ handled.calls[1].payload.cluster_name = handled.cluster

C2_Witness ==
    /\ handled.kind = "pod"
    /\ HandledKey \in DOMAIN handled.pre
    /\ handled.pre[HandledKey].phase = "Pending"
    /\ handled.phase = "Running"
    /\ Len(handled.calls) = 1
    /\ handled.calls[1].payload.previous_phase = "Pending"
    /\ handled.calls[1].payload.current_phase = "Running"

\* C3. Failure non-commit: when the sink returned failure for a transition the
\* whole history is as it was before the event; the history differs from what
\* it was only when the sink returned success, and then in the record of the
\* event's key alone, which holds the new phase.
C3_FailureNonCommit ==
    (handled.kind = "pod" /\ handled.calls # <<>>)
        => /\ handled.calls[1].result = PyFalse => pod_phase_history = handled.pre
           /\ pod_phase_history # handled.pre =>
                 /\ handled.calls[1].result = PyTrue
                 /\ pod_phase_history[HandledKey].phase = handled.phase
                 /\ \A k \in DOMAIN handled.pre \ {HandledKey} :
                        Rec(pod_phase_history, k) = Rec(handled.pre, k)
           /\ handled.calls[1].result = PyTrue =>
                 pod_phase_history[HandledKey].phase = handled.phase

C3_Witness ==
    /\ handled.kind = "pod"
    /\ handled.calls # <<>>
    /\ handled.calls[1].result = PyFalse
    /\ pod_phase_history = handled.pre
    /\ pod_phase_history[HandledKey].phase # handled.phase

\* The end-to-end scenario for cluster "c1" and pod "u1": the phases of its
\* five events, in order.
ScenarioPhases == <<"Pending", "Running", "Running", "Failed", "Failed">>

\* Every answer the sink gave while run_log[k] was handled is r.
SinkAnswered(k, r) ==
    \A j \in 1..Len(run_log[k].calls) : run_log[k].calls[j].result = r

\* The first n events of the run are the first n events of the scenario: the
\* sink succeeds at the second event and fails at the fourth.
ScenarioPrefix(n) ==
    /\ n <= Len(ScenarioPhases)
    /\ \A k \in 1..n :
          /\ run_log[k].cluster = "c1"
          /\ run_log[k].uid = "u1"
          /\ run_log[k].phase = ScenarioPhases[k]
    /\ n >= 2 => SinkAnswered(2, PyTrue)
    /\ n >= 4 => SinkAnswered(4, PyFalse)

\* run_log[k] made exactly one sink call, with these phases in its payload.
NotifiedOnce(k, previous, current) ==
    /\ Len(run_log[k].calls) = 1
    /\ run_log[k].calls[1].api = "pod_event"
    /\ run_log[k].calls[1].payload.previous_phase = previous
    /\ run_log[k].calls[1].payload.current_phase = current

ScenarioExpected(k) ==
    CASE k = 1 -> run_log[1].calls = <<>>
      [] k = 2 -> NotifiedOnce(2, "Pending", "Running") /\ run_log[2].recorded = "Running"
      [] k = 3 -> run_log[3].calls = <<>>
      [] k = 4 -> NotifiedOnce(4, "Running", "Failed") /\ run_log[4].recorded = "Running"
      [] k = 5 -> NotifiedOnce(5, "Running", "Failed")
      [] OTHER -> TRUE

\* C4. End-to-end scenario: Pending, Running (sink succeeds), Running, Failed
\* (sink fails), Failed gives: no notification; one notification
\* Pending -> Running, record Running; no notification; one notification,
\* record still Running; one more notification Running -> Failed.
C4_EndToEndScenario ==
    \A n \in 1..Len(run_log) :
        ScenarioPrefix(n) => \A k \in 1..n : ScenarioExpected(k)

C4_Witness ==
    /\ Len(run_log) = 5
    /\ ScenarioPrefix(5)
    /\ \A k \in 1..5 : ScenarioExpected(k)

\* Events a..b of the run are events of one pod that all carry one phase.
SamePhaseRun(a, b) ==
    /\ 1 <= a
    /\ a <= b
    /\ b <= Len(run_log)
    /\ \A k \in a..b : /\ run_log[k].uid = run_log[a].uid
                       /\ run_log[k].cluster = run_log[a].cluster
                       /\ run_log[k].phase = run_log[a].phase

Notified(k) == run_log[k].calls # <<>>

Accepted(k) == Notified(k) /\ run_log[k].calls[1].result = PyTrue

\* C5 as claimed. Dedup idempotence: N consecutive events of identical phase
\* after the first event cause at most one notification in total, whatever the
\* sink returns.
C5_DedupIdempotence_Claimed ==
    \A a \in 1..Len(run_log), b \in 1..Len(run_log) :
        SamePhaseRun(a, b) => Cardinality({k \in a..b : Notified(k)}) <= 1

\* C5 as amended. N consecutive events of identical phase after the first
\* event cause at most one notification the sink accepts: no event of the run
\* makes more than one sink call, at most one call of the run returns success,
\* and no event of the run after that call is notified.
C5_DedupIdempotence ==
    \A a \in 1..Len(run_log), b \in 1..Len(run_log) :
        SamePhaseRun(a, b) =>
            /\ \A k \in a..b : Len(run_log[k].calls) <= 1
            /\ Cardinality({k \in a..b : Accepted(k)}) <= 1
            /\ \A k \in a..b, m \in a..b : (k < m /\ Accepted(k)) => ~Notified(m)

\* Three events of one phase: the first is notified and the sink fails, the
\* second is notified again and the sink succeeds, the third is suppressed.
C5_Witness ==
    \E a \in 2..Len(run_log) :
        /\ a + 2 <= Len(run_log)
        /\ SamePhaseRun(a, a + 2)
        /\ Notified(a) /\ run_log[a].calls[1].result = PyFalse
        /\ Accepted(a + 1)
        /\ ~Notified(a + 2)

\* C6. Cross-cluster isolation: the record of (cluster, uid) in the shared
\* history is the record the cluster's own events produce on a store of its
\* own; the sink calls of an event are those it makes on that store; and an
\* event of one cluster leaves the records of the same UID in every other
\* cluster as they were.
C6_CrossClusterIsolation ==
    /\ \A c \in ClusterNames, u \in PodUids :
          Rec(pod_phase_history, PodKey(c, u)) = Rec(iso[c], PodKey(c, u))
    /\ handled.kind = "pod" =>
          /\ handled.calls = handled.iso_calls
          /\ \A c \in ClusterNames \ {handled.cluster} :
                Rec(pod_phase_history, PodKey(c, handled.uid))
                    = Rec(handled.pre, PodKey(c, handled.uid))

\* Cluster c2 holds a record for the UID; c1 then sees the same UID for the
\* first time, with another phase, and stays silent.
C6_Witness ==
    /\ handled.kind = "pod"
    /\ handled.cluster = "c1"
    /\ PodKey("c2", handled.uid) \in DOMAIN handled.pre
    /\ handled.pre[PodKey("c2", handled.uid)].phase # handled.phase
    /\ HandledKey \notin DOMAIN handled.pre
    /\ handled.calls = <<>>
    /\ pod_phase_history[PodKey("c2", handled.uid)] = handled.pre[PodKey("c2", handled.uid)]

\* C7. previous_phase of every payload is the phase the history held for the
\* key before the event was handled, and is not the event's own phase.
C7_PreviousPhaseReadBefore ==
    handled.kind = "pod" =>
        \A j \in 1..Len(handled.calls) :
            /\ handled.calls[j].payload.previous_phase
                   = GetPhase(handled.pre, HandledKey, PyNone)
            /\ handled.calls[j].payload.previous_phase # handled.phase

\* The record was rewritten while the event was handled, and the payload
\* carries the phase it held before.
C7_Witness ==
    /\ handled.kind = "pod"
    /\ handled.calls # <<>>
    /\ pod_phase_history # handled.pre
    /\ pod_phase_history[HandledKey].phase = handled.phase
    /\ handled.calls[1].payload.previous_phase = handled.pre[HandledKey].phase

\* C8. A PVC event of type DELETED makes exactly one sink call, pvc_event, for
\* that PVC, whatever was seen of the PVC before.
C8_PvcDeletedAlwaysNotifies ==
    (handled.kind = "pvc" /\ handled.event_type = "DELETED")
        => /\ Len(handled.calls) = 1
           /\ handled.calls[1].api = "pvc_event"
           /\ handled.calls[1].payload.metadata.uid = handled.uid
           /\ handled.calls[1].payload.cluster_name = handled.cluster
           /\ handled.calls[1].payload.event_type = "DELETED"

\* A second DELETED event for a PVC whose earlier notification failed.
C8_Witness ==
    /\ handled.kind = "pvc"
    /\ handled.event_type = "DELETED"
    /\ handled.seen = PyFalse
    /\ Len(handled.calls) = 1

\* C9. pod_event, pvc_event and health_check never raise: every sink call
\* returns True or False and the loop that made it goes on.
C9_SinkNeverRaises ==
    /\ \A env \in SinkEnvs : health_check(env) \in {PyTrue, PyFalse}
    /\ handled.kind # "none" =>
          /\ \A j \in 1..Len(handled.calls) :
                handled.calls[j].result \in {PyTrue, PyFalse}
          /\ ~handled.raised

\* C10. Supervisor start isolation: when the for loop of
\* start_watching_all_clusters is left, on whatever path, the session of every
\* well-formed descriptor has been started, and no such session is cut off by
\* the failure to start another one.
C10_StartIsolation ==
    \A i \in Sessions :
        clusters[i].is_dict =>
            /\ main_pc \in {"joining", "returned", "crashed"} => session[i] # "unstarted"
            /\ main_pc = "crashed" => session[i] = "terminated"

\* C11. Join barrier: start_watching_all_clusters returns only when every
\* session it started has terminated, and a terminated session is never
\* started again.
C11_JoinBarrier ==
    [][/\ main_pc' = "returned" => \A i \in Sessions : session'[i] = "terminated"
       /\ \A i \in Sessions : session[i] = "terminated" => session'[i] = "terminated"]_vars

\* start_watching_all_clusters has returned after two sessions: one that
\* failed at setup and one whose two streams failed while it was watching.
C11_Witness ==
    /\ main_pc = "returned"
    /\ Len(clusters) = 2
    /\ \E i \in Sessions : i \in error_log
    /\ \E i \in Sessions : loop[i].pod = "dead" /\ loop[i].pvc = "dead"

\* C12. A session whose client cannot be set up (the descriptor has no host)
\* terminates with "Error watching cluster" logged; the step changes neither
\* the main thread, which stays alive, nor any other session or its loops, nor
\* the history.
C12_SetupFailureIsLocal ==
    [][\A i \in Sessions :
          (session[i] = "setup" /\ ~clusters[i].has_host /\ session'[i] # "setup")
              => /\ session'[i] = "terminated"
                 /\ i \in error_log'
                 /\ ProcessAlive'
                 /\ main_pc' = main_pc
                 /\ \A j \in Sessions \ {i} :
                        session'[j] = session[j] /\ loop'[j] = loop[j]
                 /\ pod_phase_history' = pod_phase_history]_vars

\* One session failed at setup, its error is logged; another session is
\* watching with its pod stream open and the process is alive.
C12_Witness ==
    /\ ProcessAlive
    /\ \E i \in Sessions :
          /\ session[i] = "terminated"
          /\ i \in error_log
          /\ \E j \in Sessions \ {i} :
                session[j] = "watching" /\ loop[j].pod = "running"

\* C13. Reconnect on stream failure: a stream that failed while it was open
\* never ends the monitoring of its cluster, that is, no session terminates
\* with a stream that failed and was not opened again.
C13_StreamFailureNeverEndsMonitoring ==
    \A i \in Sessions :
        session[i] = "terminated" => loop[i].pod # "dead" /\ loop[i].pvc # "dead"

\* C14. Connection errors are retried: a session whose connection attempt
\* was refused does not give up, that is, no session terminates with a stream
\* whose connection attempt failed and was not made again.
C14_ConnectionErrorRetried ==
    \A i \in Sessions :
        session[i] = "terminated" => loop[i].pod # "refused" /\ loop[i].pvc # "refused"

OtherKind(kind) == IF kind = "pod" THEN "pvc" ELSE "pod"

Failed(state) == state \in {"dead", "refused"}

\* The loop of `kind` of session i fails in this step: its stream is refused,
\* its stream raises, or an exception leaves its handler.
LoopFails(i, kind) == ~Failed(loop[i][kind]) /\ Failed(loop'[i][kind])

\* C15. The pod loop and the PVC loop of one session are independent: the
\* step in which one of them fails leaves the other loop and the session as
\* they are, and a loop whose stream is open can handle its next event
\* whatever became of the other loop of its session.
C15_LoopsIndependent ==
    /\ [][\A i \in Sessions, kind \in {"pod", "pvc"} :
             LoopFails(i, kind)
                 => /\ loop'[i][OtherKind(kind)] = loop[i][OtherKind(kind)]
                    /\ session'[i] = session[i]
                    /\ ProcessAlive']_vars
    /\ [](\A i \in Sessions :
             now < MaxLoopClock =>
                 /\ loop[i].pod = "running" => ENABLED LoopPodEvent(i)
                 /\ loop[i].pvc = "running" => ENABLED LoopPvcEvent(i))

\* A PVC event was handled after the pod loop of its session had failed, and
\* the PVC loop goes on.
C15_Witness ==
    /\ handled.kind = "pvc"
    /\ Failed(handled.peer)
    /\ loop[handled.session].pvc = "running"

\* The loop of session i meets an error in this step: it fails, or it handles
\* an event whose sink call does not succeed.
LoopError(i) ==
    \/ \E kind \in {"pod", "pvc"} : LoopFails(i, kind)
    \/ /\ now' # now
       /\ handled'.session = i
       /\ \E n \in 1..Len(handled'.calls) : handled'.calls[n].result # PyTrue

\* The records the history holds for the pods of a cluster.
RecordsOf(history, cluster_name) ==
    [uid \in PodUids |-> Rec(history, PodKey(cluster_name, uid))]

\* C16. An error in a loop of one cluster stops no loop of another cluster,
\* changes no history record of another cluster, and every pod event makes
\* the sink calls it makes when only its own cluster is watched.
C16_NoCrossClusterPropagation ==
    /\ [][\A i \in Sessions :
             LoopError(i) =>
                 \A j \in Sessions \ {i} :
                     /\ loop'[j] = loop[j]
                     /\ session'[j] = session[j]
                     /\ RecordsOf(pod_phase_history', clusters[j].name)
                            = RecordsOf(pod_phase_history, clusters[j].name)]_vars
    /\ [](handled.kind = "pod" =>
             /\ Len(handled.calls) = Len(handled.iso_calls)
             /\ \A n \in 1..Len(handled.calls) :
                    /\ handled.calls[n].payload = handled.iso_calls[n].payload
                    /\ handled.calls[n].api = handled.iso_calls[n].api)

\* The session of one cluster has terminated after its loops failed; after
\* that the pod loop of the other cluster notified a phase change.
C16_Witness ==
    /\ handled.kind = "pod"
    /\ handled.calls # <<>>
    /\ \E j \in Sessions \ {handled.session} :
          /\ session[j] = "terminated"
          /\ \E kind \in {"pod", "pvc"} : loop[j][kind] = "dead"
    /\ loop[handled.session].pod = "running"

\* C17. A pod loop handles one event at a time, in arrival order: event k+1
\* is taken only when the handling of event k, its sink call and history
\* update included, has ended, and the sink calls of the loop are made in the
\* order of the events that caused them, each while its event is the one
\* being handled.
C17_ArrivalOrder ==
    /\ [](\A i \in Sessions :
             /\ thread[i].finished <= thread[i].started
             /\ thread[i].started <= thread[i].finished + 1
             /\ thread[i].pc = "idle" <=> thread[i].finished = thread[i].started
             /\ \A a, b \in 1..Len(thread[i].sent) :
                    a < b => thread[i].sent[a] < thread[i].sent[b])
    /\ [][\A i \in Sessions :
             /\ thread'[i].started # thread[i].started
                    => /\ thread[i].finished = thread[i].started
                       /\ thread'[i].started = thread[i].started + 1
             /\ thread'[i].sent # thread[i].sent
                    => /\ thread'[i].sent = Append(thread[i].sent, thread[i].started)
                       /\ thread[i].finished + 1 = thread[i].started]_vars

\* A pod loop made two sink calls, for its second and for its third event,
\* and the handling of all three has ended.
C17_Witness ==
    \E i \in Sessions :
        /\ thread[i].sent = <<2, 3>>
        /\ thread[i].finished = 3

\* C18. Single writer per key: the record of a key is read and written by
\* the loop of one session only.
C18_SingleWriterPerKey ==
    \A k \in DOMAIN accessors : Cardinality(accessors[k]) <= 1

\* C19. The history is safe under concurrent access by the loops of clusters
\* of different names: in every interleaving the record of each key is the
\* record that the events of its own cluster, with the same sink answers,
\* leave on a history of their own; no record is lost or altered by an
\* access to another key.
C19_DistinctKeysSafe ==
    clusters = TwoClusters =>
        \A c \in ClusterNames, uid \in PodUids :
            Rec(pod_phase_history, PodKey(c, uid)) = Rec(iso[c], PodKey(c, uid))

\* The loops of the two clusters are inside their handlers at once, one about
\* to write the record of its key after its sink call, the other about to
\* write the first record of its key.
C19_Witness ==
    /\ clusters = TwoClusters
    /\ thread[1].pc = "commit"
    /\ thread[2].pc = "initial"
    /\ DOMAIN pod_phase_history = {PodKey("c1", "u1")}

\* The step the pod loop of session j takes next.
NextStepEnabled(j) ==
    /\ (thread[j].pc = "idle" /\ thread[j].started < MaxThreadEvents)
           => ENABLED PodReceive(j)
    /\ thread[j].pc = "notify" => ENABLED PodReadPrevious(j)
    /\ thread[j].pc = "initial" => ENABLED PodRecordInitial(j)
    /\ thread[j].pc = "extract" => ENABLED PodExtract(j)
    /\ thread[j].pc = "in_sink" => ENABLED PodSinkReturn(j)
    /\ thread[j].pc = "commit" => ENABLED PodCommit(j)

\* C20. Nothing is held across a sink call: while one loop is inside
\* pod_event, every other running loop can take its next step, whether that
\* is receiving an event, reading or writing the history, or calling the sink.
C20_NothingHeldAcrossSinkCall ==
    \A i \in Sessions :
        thread[i].pc = "in_sink" =>
            \A j \in Sessions \ {i} : ThreadRuns(j) => NextStepEnabled(j)

\* Two loops are inside the sink call at the same time.
C20_Witness ==
    /\ clusters = TwoClusters
    /\ thread[1].pc = "in_sink"
    /\ thread[2].pc = "in_sink"

\* A loop thread that has not ended by itself: it is opening its stream,
\* reading it, or blocked in the read.
StreamInUse(state) == state \in {"connecting", "running", "blocked"}

\* C21. Cancellation: once the main thread has been told to shut down, every
\* loop has stopped and closed its stream.
C21_Cancellation ==
    main_pc = "interrupted" =>
        \A i \in Sessions, kind \in {"pod", "pvc"} : ~StreamInUse(loop[i][kind])

\* The snapshot handled last in a run of SpecSnapshots and its translation.
LastSnapshot == run_log[1].pod
LastTranslation == run_log[1].phase_data

\* C22. A snapshot with absent parts (status, namespace, spec, creation
\* timestamp) does not abort the pod loop: no part of its translation is an
\* exception, an absent status is handled as phase "Unknown", the handler
\* raises only when the sink call raises, and otherwise the loop runs on and
\* can take the next event.
C22_PartialSnapshotTolerated ==
    handled.kind = "pod" =>
        /\ LastTranslation.instance.node_name # Raise
        /\ LastTranslation.instance.creation_timestamp # Raise
        /\ LastTranslation.phase.current_phase # Raise
        /\ LastSnapshot.status = NoStatus => handled.phase = "Unknown"
        /\ handled.raised =>
              /\ handled.calls # <<>>
              /\ handled.calls[Len(handled.calls)].result = Raise
        /\ ~handled.raised =>
              /\ loop[handled.session].pod = "running"
              /\ now < MaxSnapshotClock => ENABLED SnapshotEvent(handled.session)

\* A snapshot with no status, no namespace, no spec and no creation timestamp
\* was handled after an earlier record of its pod: it was notified, and the
\* loop runs on.
C22_Witness ==
    /\ handled.kind = "pod"
    /\ LastSnapshot.status = NoStatus
    /\ LastSnapshot.namespace = PyNone
    /\ ~LastSnapshot.spec.present
    /\ LastSnapshot.creation_timestamp = PyNone
    /\ handled.calls # <<>>
    /\ ~handled.raised
    /\ loop[handled.session].pod = "running"

\* C23. Null-safety: a snapshot whose status is absent translates to a
\* payload with current_phase "Unknown" and no containers, and the dedup
\* decision for it is taken with the phase "Unknown": it is notified exactly
\* when its key has a record of another phase, as a change to "Unknown".
C23_AbsentStatusIsUnknown ==
    (handled.kind = "pod" /\ LastSnapshot.status = NoStatus)
        => /\ LastTranslation.phase.current_phase = "Unknown"
           /\ LastTranslation.containers = <<>>
           /\ handled.phase = "Unknown"
           /\ handled.calls # <<>>
                 <=> /\ HandledKey \in DOMAIN handled.pre
                     /\ handled.pre[HandledKey].phase # "Unknown"
           /\ \A n \in 1..Len(handled.calls) :
                 /\ handled.calls[n].payload.current_phase = "Unknown"
                 /\ handled.calls[n].payload.previous_phase
                        = LastTranslation.phase.previous_phase

\* A snapshot without status was notified as a change from "Running" to
\* "Unknown" and recorded.
C23_Witness ==
    /\ handled.kind = "pod"
    /\ LastSnapshot.status = NoStatus
    /\ handled.calls # <<>>
    /\ handled.calls[1].payload.previous_phase = "Running"
    /\ handled.calls[1].result = PyTrue
    /\ pod_phase_history[HandledKey].phase = "Unknown"

\* C24. Every container of a snapshot is rendered by the priority running,
\* waiting, terminated, unknown, for every combination of the three
\* sub-states being set or not; a container without state object is Unknown.
C24_ContainerStatePriority ==
    handled.kind = "pod" =>
        /\ LastSnapshot.status # NoStatus
              => Len(LastTranslation.containers) = Len(LastSnapshot.container_statuses)
        /\ \A n \in 1..Len(LastTranslation.containers) :
              LET state == LastSnapshot.container_statuses[n].state
                  rendered == LastTranslation.containers[n].state
              IN  /\ ~state.present => rendered = "Unknown"
                  /\ (state.present /\ state.running) => rendered = "Running"
                  /\ (state.present /\ ~state.running /\ state.waiting.present)
                        => rendered = "Waiting (" \o Str(state.waiting.reason) \o ")"
                  /\ (state.present /\ ~state.running /\ ~state.waiting.present
                          /\ state.terminated.present)
                        => rendered = "Terminated (" \o Str(state.terminated.reason) \o ")"
                  /\ (state.present /\ ~state.running /\ ~state.waiting.present
                          /\ ~state.terminated.present)
                        => rendered = "Unknown"

\* A container whose running, waiting and terminated are all set was
\* rendered "Running".
C24_Witness ==
    /\ handled.kind = "pod"
    /\ LastSnapshot.container_statuses # <<>>
    /\ LastSnapshot.container_statuses[1].state.running
    /\ LastSnapshot.container_statuses[1].state.waiting.present
    /\ LastSnapshot.container_statuses[1].state.terminated.present
    /\ LastTranslation.containers[1].state = "Running"

\* C25. Namespace filtering: with an allow-list configured, an event for a
\* pod of a namespace outside the list makes no sink call and leaves the
\* phase history as it is.
C25_NamespaceFilter ==
    (handled.kind = "pod" /\ LastSnapshot.namespace \notin target_namespaces)
        => /\ handled.calls = <<>>
           /\ pod_phase_history = handled.pre

\* run_log[k] and run_log[m] are events of one key.
SameKey(k, m) ==
    /\ run_log[k].cluster = run_log[m].cluster
    /\ run_log[k].uid = run_log[m].uid

\* Handling run_log[k] made a sink call and every answer was r.
Answered(k, r) == run_log[k].calls # <<>> /\ SinkAnswered(k, r)

\* C26. After a notification of a change from the recorded phase A to B that
\* the sink answered with failure, the record is still A and the next event of
\* that pod is evaluated against A: with a phase other than A it is notified
\* with previous_phase A (never B), with phase A it is suppressed.
C26_StaleRecordAfterFailure ==
    \A k \in 2..Len(run_log) - 1 :
        (Answered(k, PyFalse) /\ SameKey(k - 1, k) /\ SameKey(k, k + 1))
            => LET A == run_log[k - 1].recorded
                   B == run_log[k].phase
                   next == run_log[k + 1]
               IN  /\ A # B
                   /\ run_log[k].recorded = A
                   /\ next.phase # A =>
                         /\ Len(next.calls) = 1
                         /\ next.calls[1].payload.previous_phase = A
                         /\ next.calls[1].payload.previous_phase # B
                         /\ next.calls[1].payload.current_phase = next.phase
                   /\ next.phase = A => next.calls = <<>>

\* Recorded Pending; Running failed to be notified; Failed is then notified
\* as a change from Pending.
C26_Witness ==
    /\ Len(run_log) >= 3
    /\ run_log[1].recorded = "Pending"
    /\ run_log[2].phase = "Running"
    /\ Answered(2, PyFalse)
    /\ run_log[3].phase = "Failed"
    /\ Len(run_log[3].calls) = 1
    /\ run_log[3].calls[1].payload.previous_phase = "Pending"

\* C27. At most once per change: after the sink returned success for a
\* notification with current_phase p, the events of that key that follow make
\* no sink call as long as they carry p, and the next successful notification
\* of the key carries another current_phase.
C27_AtMostOncePerChange ==
    \A k \in 1..Len(run_log) :
        Answered(k, PyTrue) =>
            \A m \in (k + 1)..Len(run_log) :
                /\ (\A j \in (k + 1)..m : SameKey(k, j) /\ run_log[j].phase = run_log[k].phase)
                      => run_log[m].calls = <<>>
                /\ (/\ Answered(m, PyTrue)
                    /\ \A j \in (k + 1)..m : SameKey(k, j)
                    /\ \A j \in (k + 1)..(m - 1) : ~Answered(j, PyTrue))
                      => run_log[m].calls[1].payload.current_phase
                            # run_log[k].calls[1].payload.current_phase

\* Running was notified with success, two more Running events made no call,
\* and Failed was then notified with success.
C27_Witness ==
    /\ Len(run_log) >= 5
    /\ Answered(2, PyTrue)
    /\ run_log[2].phase = "Running"
    /\ run_log[3].phase = "Running" /\ run_log[3].calls = <<>>
    /\ run_log[4].phase = "Running" /\ run_log[4].calls = <<>>
    /\ Answered(5, PyTrue)
    /\ run_log[5].phase = "Failed"

\* C28. A suppressed event is a no-op: a pod event whose phase equals the
\* recorded phase of its key makes no sink call and leaves the whole phase
\* history, that record's timestamp included, as it was.
C28_SuppressedIsNoOp ==
    (/\ handled.kind = "pod"
     /\ HandledKey \in DOMAIN handled.pre
     /\ handled.pre[HandledKey].phase = handled.phase)
        => /\ handled.calls = <<>>
           /\ ~handled.raised
           /\ pod_phase_history = handled.pre
           /\ pod_phase_history[HandledKey].timestamp = handled.pre[HandledKey].timestamp

\* An event repeating the recorded phase was handled later than the record
\* was written, and the record keeps its older timestamp.
C28_Witness ==
    /\ handled.kind = "pod"
    /\ HandledKey \in DOMAIN handled.pre
    /\ handled.pre[HandledKey].phase = handled.phase
    /\ handled.calls = <<>>
    /\ pod_phase_history[HandledKey].timestamp + 1 < now

\* C29. Phase records are never deleted: a key that has a record has one in
\* every later state, whatever event is handled and whatever the sink
\* answers; the set of keys only grows.
C29_RecordsNeverDeleted ==
    [][DOMAIN pod_phase_history \subseteq DOMAIN pod_phase_history']_vars

\* A DELETED event was handled for a key that had a record, and the record is
\* still there.
C29_Witness ==
    /\ handled.kind = "pod"
    /\ handled.event_type = "DELETED"
    /\ HandledKey \in DOMAIN handled.pre
    /\ HandledKey \in DOMAIN pod_phase_history
    /\ pod_phase_history[HandledKey].phase # handled.phase

\* A step of the watcher that takes the loop of `kind` of session i out of
\* the read it is blocked in.
LeavesBlockedRead(i, kind) == NextOutside /\ loop'[i][kind] # "blocked"

\* C30. Bounded idle timeout: no loop stays blocked for ever on a stream that
\* delivers nothing any more, that is, a loop blocked in the read of a dead
\* connection can always be taken out of it (by its timeout), as long as the
\* process lives.
C30_IdleTimeout ==
    \A i \in Sessions, kind \in {"pod", "pvc"} :
        (ProcessAlive /\ loop[i][kind] = "blocked") => ENABLED LeavesBlockedRead(i, kind)

\* C31. The translation of a pod is a function of the pod and the cluster
\* name alone: two events of a run that carry the same pod of the same cluster
\* and were both translated give payloads with the same current_phase and the
\* same previous_phase, whatever happened between them.
C31_TranslationIsPure ==
    \A k, m \in 1..Len(run_log) :
        (/\ SameKey(k, m)
         /\ run_log[k].phase = run_log[m].phase
         /\ run_log[k].calls # <<>>
         /\ run_log[m].calls # <<>>)
            => /\ run_log[k].calls[1].payload.current_phase
                    = run_log[m].calls[1].payload.current_phase
               /\ run_log[k].calls[1].payload.previous_phase
                    = run_log[m].calls[1].payload.previous_phase

\* C32. The client a session was given is configured with the host, the TLS
\* setting and the token of the session's own descriptor, with or without a
\* token, whatever the other session does meanwhile.
C32_ClientOfOwnCluster ==
    \A i \in Sessions :
        v1_client[i].present =>
            /\ v1_client[i].host = clusters[i].host
            /\ v1_client[i].verify_ssl = clusters[i].verify_ssl
            /\ v1_client[i].token = clusters[i].token

\* C33. The history key is injective: two events whose pairs (cluster name,
\* UID) differ have different keys, so the first event of a pair finds no
\* record and makes no sink call.
C33_KeyInjective ==
    \A j, k \in 1..Len(run_log) :
        /\ PodKey(run_log[j].cluster, run_log[j].uid) = PodKey(run_log[k].cluster, run_log[k].uid)
              => SameKey(j, k)
        /\ (\A e \in 1..(k - 1) : ~SameKey(e, k)) => run_log[k].calls = <<>>

\* The phases a sink call carried.
PhasesOf(call) ==
    [previous_phase |-> call.payload.previous_phase,
     current_phase |-> call.payload.current_phase]

\* C34. The PodPhaseWatcher and the multi-cluster watcher with one cluster,
\* fed the same events with the same sink outcomes, do the same: each event
\* is handled by both, with sink calls of the same phases, the same recorded
\* phase of its UID afterwards, and both loops alive or both ended.
C34_SingleClusterEquivalent ==
    run_log # <<>> =>
        LET last == run_log[Len(run_log)]
        IN  /\ single.handled = Len(run_log)
            /\ Len(single.calls) = Len(last.calls)
            /\ \A n \in 1..Len(single.calls) : PhasesOf(single.calls[n]) = PhasesOf(last.calls[n])
            /\ GetPhase(single.history, last.uid, PyNone) = last.recorded
            /\ single.pod_loop = loop[1].pod

\* C35. A PVC event of a type other than DELETED (ADDED, MODIFIED, or a type
\* the handler does not know) makes no sink call, raises nothing and changes
\* no state of the watcher.
C35_OtherPvcEventsSilent ==
    [][(handled'.kind = "pvc" /\ handled'.event_type # "DELETED")
          => /\ handled'.calls = <<>>
             /\ ~handled'.raised
             /\ UNCHANGED <<clusters, main_pc, next_idx, session, loop, pod_phase_history>>]_vars

\* A PVC event of a type the handler does not know was handled when the
\* history held a record; nothing was sent.
C35_Witness ==
    /\ handled.kind = "pvc"
    /\ handled.event_type = "BOOKMARK"
    /\ handled.calls = <<>>
    /\ pod_phase_history # EmptyHistory
    /\ loop[handled.session].pvc = "running"

\* C36. A pod event of type DELETED goes through the same dedup as any other:
\* it is notified exactly when its key has a record of another phase, it is
\* silent for an unchanged phase and for an unseen UID, and after it the key
\* has a record.
C36_DeletedPodDedup ==
    (handled.kind = "pod" /\ handled.event_type = "DELETED")
        => /\ handled.calls # <<>>
                 <=> /\ HandledKey \in DOMAIN handled.pre
                     /\ handled.pre[HandledKey].phase # handled.phase
           /\ HandledKey \in DOMAIN pod_phase_history
           /\ HandledKey \notin DOMAIN handled.pre
                 => pod_phase_history[HandledKey].phase = handled.phase
           /\ handled.calls = <<>> =>
                 \A k \in DOMAIN handled.pre : pod_phase_history[k] = handled.pre[k]

\* A DELETED event with a changed phase was notified, the sink accepted it,
\* and the record now holds the phase of the deleted pod.
C36_Witness ==
    /\ handled.kind = "pod"
    /\ handled.event_type = "DELETED"
    /\ handled.calls # <<>>
    /\ handled.calls[1].result = PyTrue
    /\ pod_phase_history[HandledKey].phase = handled.phase

\* C37. A session has terminated, and stop() was called on its Watch, only
\* when neither of its two loops is connecting, running or blocked any more.
C37_SessionEndsAfterBothLoops ==
    \A i \in Sessions :
        session[i] = "terminated" =>
            \A kind \in {"pod", "pvc"} : ~StreamInUse(loop[i][kind])

\* A session terminated after its pod loop died of an exception and its PVC
\* stream was refused, while the other session still watches.
C37_Witness ==
    \E i, j \in Sessions :
        /\ session[i] = "terminated"
        /\ loop[i].pod = "dead"
        /\ loop[i].pvc = "refused"
        /\ session[j] = "watching"
        /\ loop[j].pod = "running"

\* C38. With no cluster configured start_watching_all_clusters returns at
\* once: the main thread goes from its start to the return with no step
\* between, no session exists, no event is handled, no sink call is made and
\* the phase history stays empty.
C38_NoClustersReturnsAtOnce ==
    Len(clusters) = 0 =>
        /\ main_pc \in {"start", "returned"}
        /\ next_idx = 1
        /\ session = <<>> /\ loop = <<>>
        /\ handled = NoEvent
        /\ pod_phase_history = EmptyHistory
        /\ error_log = {}

\* The watcher was started with an empty list and has returned.
C38_Witness ==
    /\ Len(clusters) = 0
    /\ main_pc = "returned"
    /\ pod_phase_history = EmptyHistory

\* C39. should_process_event returns False exactly for a production
\* watcher with critical_events_only set, an event that is not DELETED, and a
\* pod that has a status whose phase is neither Failed nor Succeeded; every
\* other event is processed: in any other environment, with the option
\* cleared, of type DELETED, of a pod without status, or of a pod that
\* failed or succeeded.
C39_ShouldProcessEvent ==
    legacy.event_type # PyNone =>
        /\ legacy.environment # "production" => legacy.should_process = PyTrue
        /\ ~legacy.critical_events_only => legacy.should_process = PyTrue
        /\ legacy.event_type = "DELETED" => legacy.should_process = PyTrue
        /\ legacy.pod.status = NoStatus => legacy.should_process = PyTrue
        /\ legacy.pod.status \in {"Failed", "Succeeded"} => legacy.should_process = PyTrue
        /\ (/\ legacy.environment = "production"
            /\ legacy.critical_events_only
            /\ legacy.event_type \in {"ADDED", "MODIFIED"}
            /\ legacy.pod.status \in {"Pending", "Running", PyNone})
              => legacy.should_process = PyFalse /\ legacy.outcome = "dropped"
        /\ legacy.should_process = PyTrue => legacy.outcome # "dropped"

\* A production watcher with the option set dropped a MODIFIED event of a
\* running pod.
C39_Witness ==
    /\ legacy.environment = "production"
    /\ legacy.critical_events_only
    /\ legacy.event_type = "MODIFIED"
    /\ legacy.pod.status = "Running"
    /\ legacy.should_process = PyFalse

\* C40. The environment the watcher is started with is the value of
\* ENVIRONMENT when it is set, else the command-line argument when one is
\* given, else 'development'.
C40_EnvironmentPrecedence ==
    main_pc # "main" =>
        environment = IF os_environ # PyNone THEN os_environ
                      ELSE IF sys_argv # <<>> THEN sys_argv[1]
                      ELSE "development"

====
